---- MODULE Spec2Model ----
(***************************************************************************)
(* Multi-chain FeesCollected scraper: the per-chain tick                   *)
(* (ScraperService.processChain -> EventProcessor.calculateBlockRange ->   *)
(* EventProcessor.processBlockRange), the stores it writes                 *)
(* (ScraperState, ChainConfiguration, FeeCollectedEvent) and the           *)
(* supervisor's handle map of periodic tickers.                            *)
(*                                                                         *)
(* Every await of the TypeScript code is a point where another tick, a     *)
(* ticker callback or the chain head may act, so one tick is a sequence of *)
(* atomic steps, one per awaited call.                                     *)
(***************************************************************************)
EXTENDS Integers, FiniteSets, Sequences, Bags, TLC

\* ------------------------------------------------------------------ bounds
\* ticks of one chain that may be in flight at once (the code has no limit)
MaxInFlight == 2
\* ticks spawned in one behaviour
MaxTicks == 2
\* injected failures (RPC, decode, store) in one behaviour
MaxFaults == 1
\* times the chain head advances, and by how many blocks each time
MaxHead == 1
HeadStep == 60

\* ------------------------------------------------------- program constants
DefaultStartingBlock == 70000000
DefaultMaxBlockRange == 1000
MinBlockRange == 100
DefaultScanInterval == 30000

\* ------------------------------------------------------------------- state
VARIABLES
    chainConfigs,   \* chain_configurations collection: chainId -> document
    scraperStates,  \* scraper_states collection: chainId -> document
    events,         \* fee_collected_events collection: a bag of documents
    providers,      \* BlockchainService.providers: chains with a client handle
    intervals,      \* ScraperService.intervals: chainId -> installed ticker
    ticks,          \* in-flight processChain calls: chain -> bag of frames
    latestBlock,    \* the RPC's current head of each chain
    headMoves,      \* times the head advanced
    ticksFired,     \* ticks spawned so far
    faults,         \* failures injected so far
    caller,         \* a direct caller of calculateBlockRange / processBlockRange,
                    \* or the client of the control plane
    alive,          \* the Node process has not exited
    timers,         \* the interval timers of each chain that are live in the
                    \* event loop, by the call that created them
    service         \* the scraper service's isRunning flag, the database
                    \* connection and the signal handlers' positions

vars == <<chainConfigs, scraperStates, events, providers, intervals, ticks,
          latestBlock, headMoves, ticksFired, faults, caller, alive, timers, service>>

Chains == {137}

NoConfig == [absent |-> TRUE]
NoState == [absent |-> TRUE]
NoTimer == "none"

Min(a, b) == IF a <= b THEN a ELSE b

\* The FeesCollected logs the RPC serves for a chain: block, transaction, logIndex.
RpcLogs(c) ==
    { [chainId |-> c, blockNumber |-> DefaultStartingBlock + 20,
       transactionHash |-> "0xaa", logIndex |-> 0],
      [chainId |-> c, blockNumber |-> DefaultStartingBlock + 20,
       transactionHash |-> "0xaa", logIndex |-> 1],
      [chainId |-> c, blockNumber |-> DefaultStartingBlock + 80,
       transactionHash |-> "0xbb", logIndex |-> 0] }

\* contract.queryFilter(filter, fromBlock, toBlock): both ends inclusive
queryFilter(c, fromBlock, toBlock) ==
    { l \in RpcLogs(c) : fromBlock <= l.blockNumber /\ l.blockNumber <= toBlock }

\* the natural key string built in storeEvents
EventKey(e) == <<e.chainId, e.transactionHash, e.logIndex>>

\* ------------------------------------------------------------ tick frames
\* what a frame becomes when its call has nothing left to run
Finished == [pc |-> "finished"]

NoResult == [success |-> FALSE, processedEvents |-> 0, error |-> "none"]

NewTick(origin) ==
    [pc |-> "calcState", origin |-> origin, lastProcessedBlock |-> 0,
     fromBlock |-> 0, toBlock |-> 0, rawEvents |-> {},
     newEvents |-> {}, stored |-> 0, result |-> NoResult, request |-> "none"]

Frames(c) == BagToSet(ticks[c])

\* calls that have not ended; a frame that responded stays as the record of
\* the response the client received
InFlight(c) ==
    BagCardinality([f \in { g \in Frames(c) : g.pc # "responded" } |-> ticks[c][f]])

\* the bag with frame f replaced by what it became
Moved(bag, f, g) ==
    IF g = Finished THEN bag (-) SetToBag({f})
    ELSE (bag (-) SetToBag({f})) (+) SetToBag({g})

SetTick(c, f, g) == ticks' = [ticks EXCEPT ![c] = Moved(@, f, g)]

Spawn(c, g) == ticks' = [ticks EXCEPT ![c] = @ (+) SetToBag({g})]

CanFault == faults < MaxFaults

\* -------------------------------------------------- pure parts of the code
\* scraperState?.lastProcessedBlock || config.scraper.defaultStartingBlock:
\* a missing document and a stored 0 both fall through to the default
EffectiveCursor(state) ==
    IF state = NoState THEN DefaultStartingBlock
    ELSE IF state.lastProcessedBlock = 0 THEN DefaultStartingBlock
    ELSE state.lastProcessedBlock

\* chainConfig?.maxBlockRange || config.scraper.maxBlockRange
EffectiveMaxRange(cfg) ==
    IF cfg = NoConfig THEN DefaultMaxBlockRange
    ELSE IF cfg.maxBlockRange = 0 THEN DefaultMaxBlockRange
    ELSE cfg.maxBlockRange

\* mutant: the window end is not capped by the latest block
WindowEndUncapped(fromBlock, maxBlockRange, latest) ==
    fromBlock + maxBlockRange - 1

\* toBlock = Math.min(fromBlock + maxBlockRange - 1, latestBlock)
WindowEnd(fromBlock, maxBlockRange, latest) ==
    Min(fromBlock + maxBlockRange - 1, latest)

\* mutant: the window starts at the cursor itself instead of one past it
BlockRangeFromCursor(lastProcessedBlock, latest, maxBlockRange) ==
    LET fromBlock == lastProcessedBlock
        toBlock == Min(fromBlock + maxBlockRange - 1, latest)
    IN  [isNull |-> fromBlock > toBlock, fromBlock |-> fromBlock, toBlock |-> toBlock]

\* the window calculateBlockRange returns, or null when fromBlock > toBlock
BlockRange(lastProcessedBlock, latest, maxBlockRange) ==
    LET fromBlock == lastProcessedBlock + 1
        toBlock == WindowEnd(fromBlock, maxBlockRange, latest)
    IN  [isNull |-> fromBlock > toBlock, fromBlock |-> fromBlock, toBlock |-> toBlock]

\* FeeCollectedEventModel.find with the three $in filters of storeEvents
FindExisting(store, evs) ==
    { d \in BagToSet(store) :
        /\ d.chainId \in { e.chainId : e \in evs }
        /\ d.transactionHash \in { e.transactionHash : e \in evs }
        /\ d.logIndex \in { e.logIndex : e \in evs } }

\* mutant: a candidate counts as stored when any stored document the query
\* returned has its transaction hash
FilterNewByTransaction(store, evs) ==
    LET existingTx == { d.transactionHash : d \in FindExisting(store, evs) }
    IN  { e \in evs : e.transactionHash \notin existingTx }

\* mutant: no candidate is filtered out
FilterNewNothing(store, evs) == evs

\* events.filter(event => !existingKeys.has(key))
FilterNew(store, evs) ==
    LET existingKeys == { EventKey(d) : d \in FindExisting(store, evs) }
    IN  { e \in evs : EventKey(e) \notin existingKeys }

\* the order in which the RPC returned the logs, kept through insertMany
Before(a, b) ==
    \/ a.blockNumber < b.blockNumber
    \/ a.blockNumber = b.blockNumber /\ a.logIndex < b.logIndex

\* what an ordered insertMany that fails part-way has already written
ProperPrefixes(evs) ==
    { p \in SUBSET evs : p # evs /\ \A a \in p : \A b \in evs \ p : Before(a, b) }

\* ScraperStateModel.findOneAndUpdate({chainId}, {lastProcessedBlock, lastRunAt,
\* errorCount: 0, lastError: undefined}, {upsert: true})
CommittedState(state, toBlock) ==
    IF state = NoState
    THEN [lastProcessedBlock |-> toBlock, errorCount |-> 0, lastError |-> FALSE,
          isActive |-> FALSE]
    ELSE [state EXCEPT !.lastProcessedBlock = toBlock, !.errorCount = 0,
                       !.lastError = FALSE]

\* the same update where the driver drops the undefined lastError from the
\* update document instead of writing it as null
CommittedStateKeepingError(state, toBlock) ==
    IF state = NoState THEN CommittedState(state, toBlock)
    ELSE [state EXCEPT !.lastProcessedBlock = toBlock, !.errorCount = 0]

\* handleChainError's upsert: $inc errorCount, set lastError; an inserted document
\* gets the schema default lastProcessedBlock 0
ErroredState(state) ==
    IF state = NoState
    THEN [lastProcessedBlock |-> 0, errorCount |-> 1, lastError |-> TRUE,
          isActive |-> FALSE]
    ELSE [state EXCEPT !.errorCount = @ + 1, !.lastError = TRUE]

\* startChain's update of the chain configuration: workerStatus 'starting',
\* lastWorkerStart: new Date() (a later stamp than the stored one)
Starting(cfg) ==
    IF cfg = NoConfig THEN cfg
    ELSE [cfg EXCEPT !.workerStatus = "starting", !.lastWorkerStart = @ + 1]

\* handleChainError's update of the chain configuration (no upsert)
ErroredConfig(cfg) ==
    IF cfg = NoConfig THEN cfg
    ELSE [cfg EXCEPT !.workerStatus = "error", !.lastWorkerError = TRUE]

handleChainError(c) ==
    /\ scraperStates' = [scraperStates EXCEPT ![c] = ErroredState(@)]
    /\ chainConfigs' = [chainConfigs EXCEPT ![c] = ErroredConfig(@)]

\* where a tick goes when processChain returns normally
AfterSuccess(frame) ==
    IF frame.origin = "initial" THEN [frame EXCEPT !.pc = "install"] ELSE Finished

\* where a tick goes when processChain has rethrown: startChain's catch, the
\* catch of the ticker callback installed by startChain, or no handler at all
\* for the callback installed by updateChainInterval
AfterRethrow(frame) ==
    IF frame.origin = "initial" THEN [frame EXCEPT !.pc = "startCatch"]
    ELSE IF frame.origin = "start" THEN [frame EXCEPT !.pc = "callbackCatch"]
    ELSE [frame EXCEPT !.pc = "unhandled"]

\* the frame of a processBlockRange call that returned from its catch
Failed(frame, why) ==
    [frame EXCEPT !.pc = "returned", !.rawEvents = {}, !.newEvents = {},
                  !.stored = 0,
                  !.result = [success |-> FALSE, processedEvents |-> 0, error |-> why]]

\* the frame of a processBlockRange call that returned its success result
Succeeded(frame) ==
    [frame EXCEPT !.pc = "returned", !.stored = 0,
                  !.result = [success |-> TRUE, processedEvents |-> frame.stored,
                              error |-> "none"]]

\* a request frame with the locals of its initial tick dropped
Cleared(frame) ==
    [frame EXCEPT !.lastProcessedBlock = 0, !.fromBlock = 0, !.toBlock = 0,
                  !.rawEvents = {}, !.newEvents = {}, !.stored = 0,
                  !.result = NoResult]

\* the controller's response (or, for a direct call of the supervisor, the way
\* the call ended); the handler has nothing left to run
Responded(frame, status) ==
    [Cleared(frame) EXCEPT !.pc = "responded", !.status = status,
                           !.loaded = NoConfig]

\* where a call goes when ScraperService.startChain returns: nowhere for a call
\* nobody awaits, back into addChain (201) or the controller's startChain
Returned(frame) ==
    IF frame.request = "none" THEN Finished
    ELSE IF frame.request = "start" THEN [Cleared(frame) EXCEPT !.pc = "save"]
    ELSE IF frame.request = "add" THEN Responded(frame, "201")
    ELSE Responded(frame, "returned")

\* where a call goes when ScraperService.startChain throws: the controllers
\* pass the error to next(error)
Thrown(frame) ==
    IF frame.request = "none" THEN Finished
    ELSE IF frame.request = "supervisor" THEN Responded(frame, "thrown")
    ELSE Responded(frame, "500")

\* the timers the handle map of ScraperService holds: one per entry
MapTimers ==
    [c \in Chains |-> IF intervals[c] = NoTimer THEN EmptyBag
                      ELSE SetToBag({intervals[c]})]

\* setInterval(callback, ms): one more live timer
setInterval(c, origin) ==
    timers' = [timers EXCEPT ![c] = @ (+) SetToBag({origin})]

\* clearInterval(this.intervals.get(chainId)): the timer the map holds is
\* cancelled, if there is one
clearInterval(c) ==
    timers' = [timers EXCEPT ![c] =
        IF intervals[c] = NoTimer THEN @ ELSE @ (-) SetToBag({intervals[c]})]

\* clearInterval of the timer the map holds, then setInterval
resetInterval(c, origin) ==
    timers' = [timers EXCEPT ![c] =
        (IF intervals[c] = NoTimer THEN @ ELSE @ (-) SetToBag({intervals[c]}))
            (+) SetToBag({origin})]

\* the service after startServer: scraperService.start() has set isRunning,
\* the database is connected, no signal has arrived
Service0 ==
    [isRunning |-> TRUE, db |-> "connected", shutdown |-> "idle",
     dbShutdown |-> "idle"]

\* no direct caller: every call comes from the supervisor
NoCaller == [calls |-> 0]

\* ----------------------------------------------------------------- Init
Config0 ==
    [startingBlock |-> DefaultStartingBlock, maxBlockRange |-> MinBlockRange,
     workerStatus |-> "stopped", lastWorkerError |-> FALSE, isEnabled |-> TRUE,
     rpcUrl |-> "rpc1", scanInterval |-> DefaultScanInterval,
     lastWorkerStart |-> 0]

\* the document addChain writes: lastProcessedBlock = startingBlock
State0(cfg) ==
    [lastProcessedBlock |-> cfg.startingBlock, errorCount |-> 0, lastError |-> FALSE,
     isActive |-> TRUE]

Init ==
    /\ chainConfigs = [c \in Chains |-> Config0]
    /\ scraperStates = [c \in Chains |-> State0(Config0)]
    /\ events = EmptyBag
    /\ providers = {}
    /\ intervals = [c \in Chains |-> NoTimer]
    /\ ticks = [c \in Chains |-> EmptyBag]
    /\ latestBlock = [c \in Chains |-> DefaultStartingBlock + HeadStep]
    /\ headMoves = 0
    /\ ticksFired = 0
    /\ faults = 0
    /\ caller = NoCaller
    /\ alive = TRUE
    /\ timers = MapTimers
    /\ service = Service0

\* ---------------------------------------------------------- environment
\* the chain grows
AdvanceHead(c) ==
    /\ headMoves < MaxHead
    /\ latestBlock' = [latestBlock EXCEPT ![c] = @ + HeadStep]
    /\ headMoves' = headMoves + 1
    /\ UNCHANGED <<chainConfigs, scraperStates, events, providers, intervals, ticks,
                   ticksFired, faults, caller, alive, timers, service>>

\* ------------------------------------------------------------ supervisor
\* startChain up to its first processChain: the chain is configured and has no
\* ticker; status 'starting'; addProvider passes its health check
startChain(c) ==
    /\ alive
    /\ chainConfigs[c] # NoConfig
    /\ intervals[c] = NoTimer
    /\ ticksFired < MaxTicks
    /\ InFlight(c) < MaxInFlight
    /\ chainConfigs' = [chainConfigs EXCEPT ![c] = Starting(@)]
    /\ providers' = providers \cup {c}
    /\ Spawn(c, NewTick("initial"))
    /\ ticksFired' = ticksFired + 1
    /\ UNCHANGED <<scraperStates, events, intervals, latestBlock, headMoves,
                   faults, caller, alive, timers, service>>

\* startChain when addProvider's health check fails: catch, handleChainError, throw
startChainProviderFails(c) ==
    /\ alive
    /\ chainConfigs[c] # NoConfig
    /\ intervals[c] = NoTimer
    /\ CanFault
    /\ faults' = faults + 1
    /\ scraperStates' = [scraperStates EXCEPT ![c] = ErroredState(@)]
    /\ chainConfigs' = [chainConfigs EXCEPT ![c] = ErroredConfig(Starting(@))]
    /\ UNCHANGED <<events, providers, intervals, ticks, latestBlock, headMoves,
                   ticksFired, caller, alive, timers, service>>

\* startChain after its initial processChain returned: setInterval,
\* intervals.set, status 'running'
startChainInstall(c) ==
    \E f \in Frames(c) :
        /\ f.pc = "install"
        /\ setInterval(c, "start")
        /\ intervals' = [intervals EXCEPT ![c] = "start"]
        /\ chainConfigs' = [chainConfigs EXCEPT ![c] =
                IF @ = NoConfig THEN @ ELSE [@ EXCEPT !.workerStatus = "running"]]
        /\ SetTick(c, f, Returned(f))
        /\ UNCHANGED <<scraperStates, events, providers, latestBlock, headMoves,
                       ticksFired, faults, caller, alive, service>>

\* updateChainInterval: clear the old ticker if any, install a new one
updateChainInterval(c) ==
    /\ alive
    /\ chainConfigs[c] # NoConfig
    /\ resetInterval(c, "update")
    /\ intervals' = [intervals EXCEPT ![c] = "update"]
    /\ UNCHANGED <<chainConfigs, scraperStates, events, providers, ticks,
                   latestBlock, headMoves, ticksFired, faults, caller, alive,
                   service>>

\* the installed ticker fires and its callback calls processChain
TickerFires(c) ==
    /\ ticksFired < MaxTicks
    /\ InFlight(c) < MaxInFlight
    /\ \E origin \in BagToSet(timers[c]) : Spawn(c, NewTick(origin))
    /\ ticksFired' = ticksFired + 1
    /\ UNCHANGED <<chainConfigs, scraperStates, events, providers, intervals,
                   latestBlock, headMoves, faults, caller, alive, timers, service>>

\* ------------------------------------------------- calculateBlockRange
\* ScraperStateModel.findOne({chainId}) and the || fallback
calcReadState(c) ==
    \E f \in Frames(c) :
        /\ f.pc = "calcState"
        /\ SetTick(c, f, [f EXCEPT
                !.pc = "calcLatest",
                !.lastProcessedBlock = EffectiveCursor(scraperStates[c])])
        /\ UNCHANGED <<chainConfigs, scraperStates, events, providers, intervals,
                       latestBlock, headMoves, ticksFired, faults, caller, alive, timers, service>>

\* getLatestBlockNumber answered, the chain's maxBlockRange read, window computed
calcPlan(c) ==
    \E f \in Frames(c) :
        /\ f.pc = "calcLatest"
        /\ c \in providers
        /\ LET t == f
               range == BlockRange(t.lastProcessedBlock, latestBlock[c],
                                   EffectiveMaxRange(chainConfigs[c]))
           IN  SetTick(c, f,
                 IF range.isNull
                 THEN AfterSuccess(t)
                 ELSE [t EXCEPT !.pc = "load", !.lastProcessedBlock = 0,
                                !.fromBlock = range.fromBlock,
                                !.toBlock = range.toBlock])
        /\ UNCHANGED <<chainConfigs, scraperStates, events, providers, intervals,
                       latestBlock, headMoves, ticksFired, faults, caller, alive, timers, service>>

\* getLatestBlockNumber throws: no provider for the chain, or every attempt
\* failed; calculateBlockRange rethrows into processChain's catch
calcFails(c) ==
    \E f \in Frames(c) :
        /\ f.pc = "calcLatest"
        /\ \/ c \notin providers /\ UNCHANGED faults
           \/ c \in providers /\ CanFault /\ faults' = faults + 1
        /\ SetTick(c, f, [f EXCEPT !.pc = "handleError"])
        /\ UNCHANGED <<chainConfigs, scraperStates, events, providers, intervals,
                       latestBlock, headMoves, ticksFired, caller, alive, timers, service>>

\* --------------------------------------------------- processBlockRange
\* mutant: an empty window returns success without updateScraperState
loadEventsSkipsCommit(c) ==
    \E f \in Frames(c) :
        /\ f.pc = "load"
        /\ c \in providers
        /\ LET t == f
               raw == queryFilter(c, t.fromBlock, t.toBlock)
           IN  SetTick(c, f,
                 IF raw = {}
                 THEN [t EXCEPT !.pc = "returned",
                                !.result = [success |-> TRUE, processedEvents |-> 0,
                                            error |-> "none"]]
                 ELSE [t EXCEPT !.pc = "parse", !.rawEvents = raw])
        /\ UNCHANGED <<chainConfigs, scraperStates, events, providers, intervals,
                       latestBlock, headMoves, ticksFired, faults, caller, alive, timers, service>>

\* loadFeeCollectorEvents returned the logs of [fromBlock, toBlock]
loadEvents(c) ==
    \E f \in Frames(c) :
        /\ f.pc = "load"
        /\ c \in providers
        /\ LET t == f
               raw == queryFilter(c, t.fromBlock, t.toBlock)
           IN  SetTick(c, f, [t EXCEPT
                    !.pc = IF raw = {} THEN "updateState" ELSE "parse",
                    !.rawEvents = raw])
        /\ UNCHANGED <<chainConfigs, scraperStates, events, providers, intervals,
                       latestBlock, headMoves, ticksFired, faults, caller, alive, timers, service>>

\* loadFeeCollectorEvents throws: no provider, or every attempt failed
loadFails(c) ==
    \E f \in Frames(c) :
        /\ f.pc = "load"
        /\ \/ c \notin providers /\ UNCHANGED faults
           \/ c \in providers /\ CanFault /\ faults' = faults + 1
        /\ SetTick(c, f, Failed(f, "rpc"))
        /\ UNCHANGED <<chainConfigs, scraperStates, events, providers, intervals,
                       latestBlock, headMoves, ticksFired, caller, alive, timers, service>>

\* parseFeeCollectorEvents decoded every log
parseEvents(c) ==
    \E f \in Frames(c) :
        /\ f.pc = "parse"
        /\ c \in providers
        /\ SetTick(c, f, [f EXCEPT !.pc = "storeFind"])
        /\ UNCHANGED <<chainConfigs, scraperStates, events, providers, intervals,
                       latestBlock, headMoves, ticksFired, faults, caller, alive, timers, service>>

\* parseFeeCollectorEvents throws: no provider, or parseLog rejects a log
parseFails(c) ==
    \E f \in Frames(c) :
        /\ f.pc = "parse"
        /\ \/ c \notin providers /\ UNCHANGED faults
           \/ c \in providers /\ CanFault /\ faults' = faults + 1
        /\ SetTick(c, f, Failed(f, "decode"))
        /\ UNCHANGED <<chainConfigs, scraperStates, events, providers, intervals,
                       latestBlock, headMoves, ticksFired, caller, alive, timers, service>>

\* storeEvents: the duplicate query and the filter; nothing new returns []
storeFind(c) ==
    \E f \in Frames(c) :
        /\ f.pc = "storeFind"
        /\ LET t == f
               new == FilterNew(events, t.rawEvents)
           IN  SetTick(c, f, [t EXCEPT
                    !.pc = IF new = {} THEN "updateState" ELSE "storeInsert",
                    !.rawEvents = {}, !.newEvents = new])
        /\ UNCHANGED <<chainConfigs, scraperStates, events, providers, intervals,
                       latestBlock, headMoves, ticksFired, faults, caller, alive, timers, service>>

\* storeEvents: insertMany wrote every new document
storeInsert(c) ==
    \E f \in Frames(c) :
        /\ f.pc = "storeInsert"
        /\ LET t == f
           IN  /\ events' = events (+) SetToBag(t.newEvents)
               /\ SetTick(c, f, [t EXCEPT !.pc = "updateState", !.newEvents = {},
                                          !.stored = Cardinality(t.newEvents)])
        /\ UNCHANGED <<chainConfigs, scraperStates, providers, intervals,
                       latestBlock, headMoves, ticksFired, faults, caller, alive, timers, service>>

\* mutant: the failure path of insertMany still writes the cursor
storeInsertFailsAdvancing(c) ==
    \E f \in Frames(c) :
        /\ f.pc = "storeInsert"
        /\ CanFault
        /\ faults' = faults + 1
        /\ \E done \in ProperPrefixes(f.newEvents) :
               events' = events (+) SetToBag(done)
        /\ scraperStates' = [scraperStates EXCEPT ![c] =
                                 CommittedState(@, f.toBlock)]
        /\ SetTick(c, f, Failed(f, "store"))
        /\ UNCHANGED <<chainConfigs, providers, intervals, latestBlock, headMoves,
                       ticksFired, caller, alive, timers, service>>

\* storeEvents: insertMany rejects after writing some leading documents
storeInsertFails(c) ==
    \E f \in Frames(c) :
        /\ f.pc = "storeInsert"
        /\ CanFault
        /\ faults' = faults + 1
        /\ \E done \in ProperPrefixes(f.newEvents) :
               events' = events (+) SetToBag(done)
        /\ SetTick(c, f, Failed(f, "store"))
        /\ UNCHANGED <<chainConfigs, scraperStates, providers, intervals,
                       latestBlock, headMoves, ticksFired, caller, alive, timers, service>>

\* updateScraperState(chainId, toBlock), then the success result
updateScraperState(c) ==
    \E f \in Frames(c) :
        /\ f.pc = "updateState"
        /\ LET t == f
           IN  /\ scraperStates' = [scraperStates EXCEPT ![c] =
                                        CommittedState(@, t.toBlock)]
               /\ SetTick(c, f, Succeeded(t))
        /\ UNCHANGED <<chainConfigs, events, providers, intervals,
                       latestBlock, headMoves, ticksFired, faults, caller, alive, timers, service>>

\* updateScraperState where lastError: undefined is dropped from the update and
\* a recorded error stays in the document
updateScraperStateKeepsError(c) ==
    \E f \in Frames(c) :
        /\ f.pc = "updateState"
        /\ scraperStates[c] # NoState
        /\ scraperStates[c].lastError
        /\ scraperStates' = [scraperStates EXCEPT ![c] =
                                 CommittedStateKeepingError(@, f.toBlock)]
        /\ SetTick(c, f, Succeeded(f))
        /\ UNCHANGED <<chainConfigs, events, providers, intervals,
                       latestBlock, headMoves, ticksFired, faults, caller, alive, timers, service>>

\* updateScraperState throws: the store rejects the write
updateScraperStateFails(c) ==
    \E f \in Frames(c) :
        /\ f.pc = "updateState"
        /\ CanFault
        /\ faults' = faults + 1
        /\ SetTick(c, f, Failed(f, "state"))
        /\ UNCHANGED <<chainConfigs, scraperStates, events, providers, intervals,
                       latestBlock, headMoves, ticksFired, caller, alive, timers, service>>

\* ---------------------------------------------------------- processChain
\* processChain reads the result: success returns, failure throws into its catch
processChainResult(c) ==
    \E f \in Frames(c) :
        /\ f.pc = "returned"
        /\ SetTick(c, f, IF f.result.success
                         THEN AfterSuccess(f)
                         ELSE [f EXCEPT !.pc = "handleError"])
        /\ UNCHANGED <<chainConfigs, scraperStates, events, providers, intervals,
                       latestBlock, headMoves, ticksFired, faults, caller, alive, timers, service>>

\* processChain's catch: handleChainError, then rethrow to the caller
processChainCatch(c) ==
    \E f \in Frames(c) :
        /\ f.pc = "handleError"
        /\ handleChainError(c)
        /\ SetTick(c, f, AfterRethrow(f))
        /\ UNCHANGED <<events, providers, intervals, latestBlock, headMoves,
                       ticksFired, faults, caller, alive, timers, service>>

\* the caller's catch (startChain's, or the ticker callback's of startChain):
\* handleChainError once more
callerCatch(c) ==
    \E f \in Frames(c) :
        /\ f.pc \in {"startCatch", "callbackCatch"}
        /\ handleChainError(c)
        /\ SetTick(c, f, IF f.pc = "startCatch" THEN Thrown(f) ELSE Finished)
        /\ UNCHANGED <<events, providers, intervals, latestBlock, headMoves,
                       ticksFired, faults, caller, alive, timers, service>>

\* the rejection of the callback installed by updateChainInterval has no
\* handler: the process exits, and with it every ticker, every call in flight
\* and the provider map
unhandledRejection(c) ==
    \E f \in Frames(c) :
        /\ f.pc = "unhandled"
        /\ alive' = FALSE
        /\ intervals' = [d \in DOMAIN intervals |-> NoTimer]
        /\ ticks' = [d \in DOMAIN ticks |-> EmptyBag]
        /\ providers' = {}
        /\ timers' = [d \in DOMAIN timers |-> EmptyBag]
        /\ UNCHANGED <<chainConfigs, scraperStates, events, latestBlock, headMoves,
                       ticksFired, faults, caller, service>>

\* ------------------------------------------------------- specification
Next ==
    \/ \E c \in Chains : AdvanceHead(c)
    \/ \E c \in Chains : startChain(c)
    \/ \E c \in Chains : startChainProviderFails(c)
    \/ \E c \in Chains : startChainInstall(c)
    \/ \E c \in Chains : updateChainInterval(c)
    \/ \E c \in Chains : TickerFires(c)
    \/ \E c \in Chains : calcReadState(c)
    \/ \E c \in Chains : calcPlan(c)
    \/ \E c \in Chains : calcFails(c)
    \/ \E c \in Chains : loadEvents(c)
    \/ \E c \in Chains : loadFails(c)
    \/ \E c \in Chains : parseEvents(c)
    \/ \E c \in Chains : parseFails(c)
    \/ \E c \in Chains : storeFind(c)
    \/ \E c \in Chains : storeInsert(c)
    \/ \E c \in Chains : storeInsertFails(c)
    \/ \E c \in Chains : updateScraperState(c)
    \/ \E c \in Chains : updateScraperStateFails(c)
    \/ \E c \in Chains : processChainResult(c)
    \/ \E c \in Chains : processChainCatch(c)
    \/ \E c \in Chains : callerCatch(c)
    \/ \E c \in Chains : unhandledRejection(c)

Spec == Init /\ [][Next]_vars

\* ------------------------------------ direct calls of the event processor
\* calculateBlockRange called on its own, as eventProcessor.test.ts does, for
\* each stored cursor, latest block and maxBlockRange: the stored cursor is a
\* block some commit wrote, the 0 of a document inserted by an upsert, or absent;
\* the chain was added with the default starting block or with one of its own
PlannerCursors ==
    {NoState}
    \cup { [lastProcessedBlock |-> b, errorCount |-> 0, lastError |-> FALSE,
              isActive |-> TRUE] :
             b \in {0} \cup { DefaultStartingBlock + k * HeadStep : k \in 0..MaxHead }
                       \cup { DefaultStartingBlock + k * HeadStep - 1 : k \in 0..MaxHead }
                       \cup { DefaultStartingBlock + MinBlockRange } }

PlannerRanges == {MinBlockRange, MinBlockRange + HeadStep, DefaultMaxBlockRange}

InitPlanner ==
    /\ \E r \in PlannerRanges :
       \E b \in {DefaultStartingBlock, DefaultStartingBlock + 20} :
         chainConfigs = [c \in Chains |-> [Config0 EXCEPT !.maxBlockRange = r,
                                                          !.startingBlock = b]]
    /\ scraperStates \in [Chains -> PlannerCursors]
    /\ events = EmptyBag
    /\ providers = Chains
    /\ intervals = [c \in Chains |-> NoTimer]
    /\ ticks = [c \in Chains |-> SetToBag({NewTick("call")})]
    /\ latestBlock \in [Chains -> { DefaultStartingBlock + k * HeadStep : k \in 0..MaxHead }]
    /\ headMoves = 0
    /\ ticksFired = 0
    /\ faults = 0
    /\ caller = NoCaller
    /\ alive = TRUE
    /\ timers = MapTimers
    /\ service = Service0

NextPlanner ==
    \/ \E c \in Chains : calcReadState(c)
    \/ \E c \in Chains : calcPlan(c)

SpecPlanner == InitPlanner /\ [][NextPlanner]_vars

\* processBlockRange(chainId, fromBlock, toBlock) called on its own, at most
\* twice in sequence with the same arguments, as eventProcessor.test.ts does
MaxCalls == 2

Windows ==
    { w \in { <<DefaultStartingBlock + a + 1, DefaultStartingBlock + b>> :
                a \in {0, HeadStep, MinBlockRange},
                b \in {HeadStep, MinBlockRange, 2 * HeadStep} } : w[1] <= w[2] }

\* stores a chain scanned from its starting block can have left behind
StoresBefore(c) ==
    { SetToBag(p) : p \in ProperPrefixes(RpcLogs(c)) \cup {RpcLogs(c)} }

CallFrame(w) ==
    [NewTick("call") EXCEPT !.pc = "load", !.fromBlock = w[1], !.toBlock = w[2]]

InitProcess ==
    /\ chainConfigs = [c \in Chains |-> Config0]
    /\ \E b \in {DefaultStartingBlock, DefaultStartingBlock + HeadStep} :
         scraperStates = [c \in Chains |->
             [lastProcessedBlock |-> b, errorCount |-> 0, lastError |-> FALSE,
              isActive |-> TRUE]]
    /\ \E c \in Chains : events \in StoresBefore(c)
    /\ providers = Chains
    /\ intervals = [c \in Chains |-> NoTimer]
    /\ ticks = [c \in Chains |-> EmptyBag]
    /\ latestBlock = [c \in Chains |-> DefaultStartingBlock + 2 * HeadStep]
    /\ headMoves = 0
    /\ ticksFired = 0
    /\ faults = 0
    /\ \E w \in Windows :
         caller = [calls |-> 0, window |-> w, results |-> <<>>,
                   stateBefore |-> NoState, eventsBefore |-> EmptyBag,
                   eventsAfterFirst |-> EmptyBag]
    /\ alive = TRUE
    /\ timers = MapTimers
    /\ service = Service0

\* the caller awaits processBlockRange(chainId, fromBlock, toBlock)
callProcessBlockRange(c) ==
    /\ caller.calls < MaxCalls
    /\ ticks[c] = EmptyBag
    /\ Spawn(c, CallFrame(caller.window))
    /\ caller' = [caller EXCEPT !.calls = @ + 1,
                                !.stateBefore = scraperStates[c],
                                !.eventsBefore = events]
    /\ UNCHANGED <<chainConfigs, scraperStates, events, providers, intervals,
                   latestBlock, headMoves, ticksFired, faults, alive, timers, service>>

\* the awaited promise resolves with the EventProcessingResult
returnProcessBlockRange(c) ==
    \E f \in Frames(c) :
        /\ f.pc = "returned"
        /\ caller' = [caller EXCEPT
                !.results = @ \o <<f.result>>,
                !.eventsAfterFirst = IF caller.calls = 1 THEN events ELSE @]
        /\ SetTick(c, f, Finished)
        /\ UNCHANGED <<chainConfigs, scraperStates, events, providers, intervals,
                       latestBlock, headMoves, ticksFired, faults, alive, timers, service>>

NextProcess ==
    \/ \E c \in Chains : callProcessBlockRange(c)
    \/ \E c \in Chains : loadEvents(c)
    \/ \E c \in Chains : loadFails(c)
    \/ \E c \in Chains : parseEvents(c)
    \/ \E c \in Chains : parseFails(c)
    \/ \E c \in Chains : storeFind(c)
    \/ \E c \in Chains : storeInsert(c)
    \/ \E c \in Chains : storeInsertFails(c)
    \/ \E c \in Chains : updateScraperState(c)
    \/ \E c \in Chains : updateScraperStateFails(c)
    \/ \E c \in Chains : returnProcessBlockRange(c)

SpecProcess == InitProcess /\ [][NextProcess]_vars


\* ================================================== control plane
\* requests the client issues in one behaviour
MaxRequests == 1

MinScanInterval == 5000

\* request bodies after validation: an omitted field is 0 or ""
NoInput == [startingBlock |-> 0, rpcUrl |-> "", scanInterval |-> 0]

AddInputs ==
    { [NoInput EXCEPT !.startingBlock = b, !.rpcUrl = "rpc1"] :
        b \in {0, DefaultStartingBlock + 80} }

Patches ==
    { [NoInput EXCEPT !.rpcUrl = "rpc2"],
      [NoInput EXCEPT !.rpcUrl = "rpc1"],
      [NoInput EXCEPT !.scanInterval = MinScanInterval] }

\* the frame of a request: it runs the controller, and inside it
\* ScraperService.startChain with its initial tick
NewRequest(op, pc, input) ==
    [pc |-> pc, origin |-> "initial", lastProcessedBlock |-> 0,
     fromBlock |-> 0, toBlock |-> 0, rawEvents |-> {}, newEvents |-> {},
     stored |-> 0, result |-> NoResult, request |-> op, input |-> input,
     loaded |-> NoConfig, probed |-> FALSE, status |-> "none"]

CanRequest(c) ==
    /\ alive
    /\ caller.calls < MaxRequests
    /\ InFlight(c) < MaxInFlight

Issue(c, frame) ==
    /\ Spawn(c, frame)
    /\ caller' = [caller EXCEPT !.calls = @ + 1]
    /\ UNCHANGED <<chainConfigs, scraperStates, events, providers, intervals,
                   latestBlock, headMoves, ticksFired, faults, alive, timers, service>>

\* POST /chains
requestAdd(c) ==
    /\ CanRequest(c)
    /\ \E cfg \in AddInputs : Issue(c, NewRequest("add", "addFind", cfg))

\* PUT /chains/:chainId/start
requestStart(c) ==
    /\ CanRequest(c)
    /\ Issue(c, NewRequest("start", "find", NoInput))

\* PUT /chains/:chainId/stop
requestStop(c) ==
    /\ CanRequest(c)
    /\ Issue(c, NewRequest("stop", "find", NoInput))

\* PUT /chains/:chainId/update
requestUpdate(c) ==
    /\ CanRequest(c)
    /\ \E patch \in Patches : Issue(c, NewRequest("update", "find", patch))

\* DELETE /chains/:chainId
requestDelete(c) ==
    /\ CanRequest(c)
    /\ Issue(c, NewRequest("delete", "find", NoInput))

\* scraperService.startChain(chainId) called directly
supervisorStart(c) ==
    /\ CanRequest(c)
    /\ Issue(c, NewRequest("supervisor", "startCall", NoInput))

\* the documents addChain builds
AddedConfig(cfg) ==
    [startingBlock |-> IF cfg.startingBlock = 0 THEN DefaultStartingBlock
                       ELSE cfg.startingBlock,
     maxBlockRange |-> DefaultMaxBlockRange, workerStatus |-> "starting",
     lastWorkerError |-> FALSE, isEnabled |-> TRUE, rpcUrl |-> cfg.rpcUrl,
     scanInterval |-> DefaultScanInterval, lastWorkerStart |-> 1]

\* lastProcessedBlock: value.startingBlock || 70000000
AddedState(cfg) ==
    [lastProcessedBlock |-> IF cfg.startingBlock = 0 THEN DefaultStartingBlock
                            ELSE cfg.startingBlock,
     errorCount |-> 0, lastError |-> FALSE, isActive |-> TRUE]

\* mutant: an add for a chain that is already configured goes on to the probe
addFindIgnoringDuplicate(c) ==
    \E f \in Frames(c) :
        /\ f.pc = "addFind"
        /\ SetTick(c, f, [f EXCEPT !.pc = "probe"])
        /\ UNCHANGED <<chainConfigs, scraperStates, events, providers, intervals,
                       latestBlock, headMoves, ticksFired, faults, caller, alive, timers, service>>

\* addChain: ChainConfigurationModel.findOne; an existing chain is a 409
addFind(c) ==
    \E f \in Frames(c) :
        /\ f.pc = "addFind"
        /\ SetTick(c, f, IF chainConfigs[c] # NoConfig
                         THEN Responded(f, "409")
                         ELSE [f EXCEPT !.pc = "probe"])
        /\ UNCHANGED <<chainConfigs, scraperStates, events, providers, intervals,
                       latestBlock, headMoves, ticksFired, faults, caller, alive, timers, service>>

\* where a request goes after the configuration was found
AfterFind(frame, cfg) ==
    LET g == [frame EXCEPT !.loaded = cfg]
    IN  CASE frame.request = "start" -> [g EXCEPT !.pc = "startCall"]
          [] frame.request = "stop" -> [g EXCEPT !.pc = "stopWorker"]
          [] frame.request = "delete" ->
                [g EXCEPT !.pc = IF cfg.workerStatus = "running"
                                 THEN "stopWorker" ELSE "deleteDocs"]
          [] OTHER ->
                [g EXCEPT !.pc = IF frame.input.rpcUrl # ""
                                    /\ frame.input.rpcUrl # cfg.rpcUrl
                                 THEN "probe" ELSE "save"]

\* startChain, stopChain, updateChain, deleteChain: findOne, or 404
findConfig(c) ==
    \E f \in Frames(c) :
        /\ f.pc = "find"
        /\ SetTick(c, f, IF chainConfigs[c] = NoConfig
                         THEN Responded(f, "404")
                         ELSE AfterFind(f, chainConfigs[c]))
        /\ UNCHANGED <<chainConfigs, scraperStates, events, providers, intervals,
                       latestBlock, headMoves, ticksFired, faults, caller, alive, timers, service>>

\* mutant: the configuration is written although the probe failed
probeFailsAfterSaving(c) ==
    \E f \in Frames(c) :
        /\ f.pc = "probe"
        /\ CanFault
        /\ faults' = faults + 1
        /\ chainConfigs' = [chainConfigs EXCEPT ![c] =
              IF f.request = "add" THEN AddedConfig(f.input)
              ELSE IF @ = NoConfig THEN @
              ELSE [@ EXCEPT !.rpcUrl = f.input.rpcUrl]]
        /\ SetTick(c, f, Responded(f, "400"))
        /\ UNCHANGED <<scraperStates, events, providers, intervals,
                       latestBlock, headMoves, ticksFired, caller, alive, timers, service>>

\* blockchainService.validateProvider(rpcUrl) throws: AppError 400
probeFails(c) ==
    \E f \in Frames(c) :
        /\ f.pc = "probe"
        /\ CanFault
        /\ faults' = faults + 1
        /\ SetTick(c, f, Responded(f, "400"))
        /\ UNCHANGED <<chainConfigs, scraperStates, events, providers, intervals,
                       latestBlock, headMoves, ticksFired, caller, alive, timers, service>>

\* blockchainService.validateProvider(rpcUrl) resolves
probeOk(c) ==
    \E f \in Frames(c) :
        /\ f.pc = "probe"
        /\ SetTick(c, f, [f EXCEPT !.probed = TRUE,
                                   !.pc = IF f.request = "add" THEN "addSave"
                                          ELSE "save"])
        /\ UNCHANGED <<chainConfigs, scraperStates, events, providers, intervals,
                       latestBlock, headMoves, ticksFired, faults, caller, alive, timers, service>>

\* addChain: newChainConfig.save(); chainId is unique, so a document written
\* in the meantime makes the insert fail
addSave(c) ==
    \E f \in Frames(c) :
        /\ f.pc = "addSave"
        /\ IF chainConfigs[c] # NoConfig
           THEN /\ SetTick(c, f, Responded(f, "500"))
                /\ UNCHANGED chainConfigs
           ELSE /\ chainConfigs' = [chainConfigs EXCEPT ![c] = AddedConfig(f.input)]
                /\ SetTick(c, f, [f EXCEPT !.pc = "addProvider"])
        /\ UNCHANGED <<scraperStates, events, providers, intervals,
                       latestBlock, headMoves, ticksFired, faults, caller, alive, timers, service>>

\* blockchainService.addProvider in addChain and updateChain: the health check
\* passes and the provider is registered
addProvider(c) ==
    \E f \in Frames(c) :
        /\ f.pc = "addProvider"
        /\ providers' = providers \cup {c}
        /\ SetTick(c, f, IF f.request = "add" THEN [f EXCEPT !.pc = "addState"]
                         ELSE IF f.input.scanInterval # 0
                         THEN [f EXCEPT !.pc = "updateInterval"]
                         ELSE Responded(f, "200"))
        /\ UNCHANGED <<chainConfigs, scraperStates, events, intervals,
                       latestBlock, headMoves, ticksFired, faults, caller, alive, timers, service>>

\* blockchainService.addProvider throws: the health check failed
addProviderFails(c) ==
    \E f \in Frames(c) :
        /\ f.pc = "addProvider"
        /\ CanFault
        /\ faults' = faults + 1
        /\ SetTick(c, f, Responded(f, "500"))
        /\ UNCHANGED <<chainConfigs, scraperStates, events, providers, intervals,
                       latestBlock, headMoves, ticksFired, caller, alive, timers, service>>

\* addChain: scraperState.save(); chainId is unique, so an existing document
\* makes the insert fail
addState(c) ==
    \E f \in Frames(c) :
        /\ f.pc = "addState"
        /\ IF scraperStates[c] # NoState
           THEN /\ SetTick(c, f, Responded(f, "500"))
                /\ UNCHANGED scraperStates
           ELSE /\ scraperStates' = [scraperStates EXCEPT ![c] = AddedState(f.input)]
                /\ SetTick(c, f, [f EXCEPT !.pc = "startCall"])
        /\ UNCHANGED <<chainConfigs, events, providers, intervals,
                       latestBlock, headMoves, ticksFired, faults, caller, alive, timers, service>>

\* mutant: a start for a chain without a configuration installs a ticker
\* before it throws
startCallUnknownInstalls(c) ==
    \E f \in Frames(c) :
        /\ f.pc = "startCall"
        /\ chainConfigs[c] = NoConfig
        /\ handleChainError(c)
        /\ setInterval(c, "start")
        /\ intervals' = [intervals EXCEPT ![c] = "start"]
        /\ SetTick(c, f, Thrown(f))
        /\ UNCHANGED <<events, providers, latestBlock, headMoves,
                       ticksFired, faults, caller, alive, service>>

\* ScraperService.startChain: no configuration for the chain; the throw lands in
\* its own catch, handleChainError upserts the scraper state, and it rethrows
startCallUnknown(c) ==
    \E f \in Frames(c) :
        /\ f.pc = "startCall"
        /\ chainConfigs[c] = NoConfig
        /\ handleChainError(c)
        /\ SetTick(c, f, Thrown(f))
        /\ UNCHANGED <<events, providers, intervals, latestBlock, headMoves,
                       ticksFired, faults, caller, alive, timers, service>>

\* mutant: a start on a chain that already has a ticker goes through again
startCallNoopRestarts(c) ==
    \E f \in Frames(c) :
        /\ f.pc = "startCall"
        /\ chainConfigs[c] # NoConfig
        /\ intervals[c] # NoTimer
        /\ chainConfigs' = [chainConfigs EXCEPT ![c] = Starting(@)]
        /\ SetTick(c, f, [f EXCEPT !.pc = "calcState"])
        /\ UNCHANGED <<scraperStates, events, providers, intervals, latestBlock,
                       headMoves, ticksFired, faults, caller, alive, timers, service>>

\* ScraperService.startChain: this.intervals.has(chainId), warn and return
startCallNoop(c) ==
    \E f \in Frames(c) :
        /\ f.pc = "startCall"
        /\ chainConfigs[c] # NoConfig
        /\ intervals[c] # NoTimer
        /\ SetTick(c, f, Returned(f))
        /\ UNCHANGED <<chainConfigs, scraperStates, events, providers, intervals,
                       latestBlock, headMoves, ticksFired, faults, caller, alive, timers, service>>

\* ScraperService.startChain up to its first processChain: status 'starting',
\* addProvider passes its health check
startCallBegin(c) ==
    \E f \in Frames(c) :
        /\ f.pc = "startCall"
        /\ chainConfigs[c] # NoConfig
        /\ intervals[c] = NoTimer
        /\ chainConfigs' = [chainConfigs EXCEPT ![c] = Starting(@)]
        /\ providers' = providers \cup {c}
        /\ SetTick(c, f, [f EXCEPT !.pc = "calcState"])
        /\ UNCHANGED <<scraperStates, events, intervals, latestBlock, headMoves,
                       ticksFired, faults, caller, alive, timers, service>>

\* mutant: a start that fails at addProvider rethrows without recording the
\* error, leaving the status 'starting'
startCallProviderFailsStarting(c) ==
    \E f \in Frames(c) :
        /\ f.pc = "startCall"
        /\ chainConfigs[c] # NoConfig
        /\ intervals[c] = NoTimer
        /\ CanFault
        /\ faults' = faults + 1
        /\ chainConfigs' = [chainConfigs EXCEPT ![c] = Starting(@)]
        /\ SetTick(c, f, Thrown(f))
        /\ UNCHANGED <<scraperStates, events, providers, intervals, latestBlock,
                       headMoves, ticksFired, caller, alive, timers, service>>

\* ScraperService.startChain when addProvider's health check fails: catch,
\* handleChainError, rethrow
startCallProviderFails(c) ==
    \E f \in Frames(c) :
        /\ f.pc = "startCall"
        /\ chainConfigs[c] # NoConfig
        /\ intervals[c] = NoTimer
        /\ CanFault
        /\ faults' = faults + 1
        /\ scraperStates' = [scraperStates EXCEPT ![c] = ErroredState(@)]
        /\ chainConfigs' = [chainConfigs EXCEPT ![c] = ErroredConfig(Starting(@))]
        /\ SetTick(c, f, Thrown(f))
        /\ UNCHANGED <<events, providers, intervals, latestBlock, headMoves,
                       ticksFired, caller, alive, timers, service>>

\* ScraperService.stopChain: with a handle, clearInterval, intervals.delete and
\* status 'stopped'; without one, a warning
stopWorker(c) ==
    \E f \in Frames(c) :
        /\ f.pc = "stopWorker"
        /\ IF intervals[c] # NoTimer
           THEN /\ clearInterval(c)
                /\ intervals' = [intervals EXCEPT ![c] = NoTimer]
                /\ chainConfigs' = [chainConfigs EXCEPT ![c] =
                      IF @ = NoConfig THEN @ ELSE [@ EXCEPT !.workerStatus = "stopped"]]
           ELSE UNCHANGED <<intervals, chainConfigs, timers>>
        /\ SetTick(c, f, [f EXCEPT !.pc = IF f.request = "delete" THEN "deleteDocs"
                                          ELSE "save"])
        /\ UNCHANGED <<scraperStates, events, providers, latestBlock, headMoves,
                       ticksFired, faults, caller, alive, service>>

\* the fields the controller assigned to the document it loaded; new Date() is
\* a later stamp than any stored one
Assigned(c, frame) ==
    LET d == frame.loaded
        stored == IF chainConfigs[c] = NoConfig THEN d ELSE chainConfigs[c]
    IN  CASE frame.request = "start" ->
                [d EXCEPT !.workerStatus = "running", !.isEnabled = TRUE,
                          !.lastWorkerStart = stored.lastWorkerStart + 1]
          [] frame.request = "stop" ->
                [d EXCEPT !.workerStatus = "stopped", !.isEnabled = FALSE]
          [] OTHER ->
                [d EXCEPT !.rpcUrl = IF frame.input.rpcUrl = "" THEN @
                                     ELSE frame.input.rpcUrl,
                          !.scanInterval = IF frame.input.scanInterval = 0 THEN @
                                           ELSE frame.input.scanInterval]

\* document.save() writes the paths that differ from the loaded document
Saved(stored, loaded, assigned) ==
    [k \in DOMAIN stored |->
        IF assigned[k] # loaded[k] THEN assigned[k] ELSE stored[k]]

\* where a request goes after chainConfig.save()
AfterSave(frame) ==
    IF frame.request \in {"start", "stop"} THEN [frame EXCEPT !.pc = "saveState"]
    ELSE IF frame.input.rpcUrl # "" THEN [frame EXCEPT !.pc = "addProvider"]
    ELSE IF frame.input.scanInterval # 0 THEN [frame EXCEPT !.pc = "updateInterval"]
    ELSE Responded(frame, "200")

\* startChain, stopChain, updateChain: chainConfig.save(); a document deleted
\* in the meantime makes a save with changes fail
saveConfig(c) ==
    \E f \in Frames(c) :
        /\ f.pc = "save"
        /\ IF chainConfigs[c] = NoConfig
           THEN /\ SetTick(c, f, IF Assigned(c, f) = f.loaded THEN AfterSave(f)
                                 ELSE Responded(f, "500"))
                /\ UNCHANGED chainConfigs
           ELSE /\ chainConfigs' = [chainConfigs EXCEPT ![c] =
                                       Saved(@, f.loaded, Assigned(c, f))]
                /\ SetTick(c, f, AfterSave(f))
        /\ UNCHANGED <<scraperStates, events, providers, intervals,
                       latestBlock, headMoves, ticksFired, faults, caller, alive, timers, service>>

\* ScraperStateModel.findOneAndUpdate({chainId}, {isActive}, {upsert: true})
ActiveState(state, active) ==
    IF state = NoState
    THEN [lastProcessedBlock |-> 0, errorCount |-> 0, lastError |-> FALSE,
          isActive |-> active]
    ELSE [state EXCEPT !.isActive = active]

\* startChain, stopChain: the upsert of the scraper state, then the response
saveState(c) ==
    \E f \in Frames(c) :
        /\ f.pc = "saveState"
        /\ scraperStates' = [scraperStates EXCEPT ![c] =
                                 ActiveState(@, f.request = "start")]
        /\ SetTick(c, f, Responded(f, "200"))
        /\ UNCHANGED <<chainConfigs, events, providers, intervals,
                       latestBlock, headMoves, ticksFired, faults, caller, alive, timers, service>>

\* deleteChain: ChainConfigurationModel.deleteOne of the Promise.all
deleteConfigDoc(c) ==
    \E f \in Frames(c) :
        /\ f.pc \in {"deleteDocs", "deleteConfig"}
        /\ chainConfigs' = [chainConfigs EXCEPT ![c] = NoConfig]
        /\ SetTick(c, f, IF f.pc = "deleteDocs" THEN [f EXCEPT !.pc = "deleteState"]
                         ELSE Responded(f, "200"))
        /\ UNCHANGED <<scraperStates, events, providers, intervals,
                       latestBlock, headMoves, ticksFired, faults, caller, alive, timers, service>>

\* mutant: deleting a chain's scraper state also deletes its stored events
deleteStateDocWithEvents(c) ==
    \E f \in Frames(c) :
        /\ f.pc \in {"deleteDocs", "deleteState"}
        /\ scraperStates' = [scraperStates EXCEPT ![c] = NoState]
        /\ events' = EmptyBag
        /\ SetTick(c, f, IF f.pc = "deleteDocs" THEN [f EXCEPT !.pc = "deleteConfig"]
                         ELSE Responded(f, "200"))
        /\ UNCHANGED <<chainConfigs, providers, intervals,
                       latestBlock, headMoves, ticksFired, faults, caller, alive, timers, service>>

\* deleteChain: ScraperStateModel.deleteOne of the Promise.all
deleteStateDoc(c) ==
    \E f \in Frames(c) :
        /\ f.pc \in {"deleteDocs", "deleteState"}
        /\ scraperStates' = [scraperStates EXCEPT ![c] = NoState]
        /\ SetTick(c, f, IF f.pc = "deleteDocs" THEN [f EXCEPT !.pc = "deleteConfig"]
                         ELSE Responded(f, "200"))
        /\ UNCHANGED <<chainConfigs, events, providers, intervals,
                       latestBlock, headMoves, ticksFired, faults, caller, alive, timers, service>>

\* updateChain: scraperService.updateChainInterval(chainId, value.scanInterval)
updateInterval(c) ==
    \E f \in Frames(c) :
        /\ f.pc = "updateInterval"
        /\ resetInterval(c, "update")
        /\ intervals' = [intervals EXCEPT ![c] = "update"]
        /\ SetTick(c, f, Responded(f, "200"))
        /\ UNCHANGED <<chainConfigs, scraperStates, events, providers,
                       latestBlock, headMoves, ticksFired, faults, caller, alive,
                       service>>

\* a chain as a successful addChain with startingBlock 70000080 left it
RunningConfig ==
    [AddedConfig([NoInput EXCEPT !.startingBlock = DefaultStartingBlock + 80,
                                 !.rpcUrl = "rpc1"])
        EXCEPT !.workerStatus = "running", !.lastWorkerStart = 2]

RunningState ==
    AddedState([NoInput EXCEPT !.startingBlock = DefaultStartingBlock + 80])

\* the control plane starts on an empty registry, or on one running chain
InitControl ==
    /\ \E running \in BOOLEAN :
         /\ chainConfigs = [c \in Chains |-> IF running THEN RunningConfig ELSE NoConfig]
         /\ scraperStates = [c \in Chains |-> IF running THEN RunningState ELSE NoState]
         /\ providers = IF running THEN Chains ELSE {}
         /\ intervals = [c \in Chains |-> IF running THEN "start" ELSE NoTimer]
    /\ events = EmptyBag
    /\ ticks = [c \in Chains |-> EmptyBag]
    /\ latestBlock = [c \in Chains |-> DefaultStartingBlock + 2 * HeadStep]
    /\ headMoves = 0
    /\ ticksFired = 0
    /\ faults = 0
    /\ caller = NoCaller
    /\ alive = TRUE
    /\ timers = MapTimers
    /\ service = Service0

NextControl ==
    \/ \E c \in Chains : requestAdd(c)
    \/ \E c \in Chains : requestStart(c)
    \/ \E c \in Chains : requestStop(c)
    \/ \E c \in Chains : requestUpdate(c)
    \/ \E c \in Chains : requestDelete(c)
    \/ \E c \in Chains : supervisorStart(c)
    \/ \E c \in Chains : addFind(c)
    \/ \E c \in Chains : findConfig(c)
    \/ \E c \in Chains : probeOk(c)
    \/ \E c \in Chains : probeFails(c)
    \/ \E c \in Chains : addSave(c)
    \/ \E c \in Chains : addProvider(c)
    \/ \E c \in Chains : addProviderFails(c)
    \/ \E c \in Chains : addState(c)
    \/ \E c \in Chains : startCallUnknown(c)
    \/ \E c \in Chains : startCallNoop(c)
    \/ \E c \in Chains : startCallBegin(c)
    \/ \E c \in Chains : startCallProviderFails(c)
    \/ \E c \in Chains : stopWorker(c)
    \/ \E c \in Chains : saveConfig(c)
    \/ \E c \in Chains : saveState(c)
    \/ \E c \in Chains : deleteConfigDoc(c)
    \/ \E c \in Chains : deleteStateDoc(c)
    \/ \E c \in Chains : updateInterval(c)
    \/ \E c \in Chains : startChainInstall(c)
    \/ \E c \in Chains : TickerFires(c)
    \/ \E c \in Chains : calcReadState(c)
    \/ \E c \in Chains : calcPlan(c)
    \/ \E c \in Chains : calcFails(c)
    \/ \E c \in Chains : loadEvents(c)
    \/ \E c \in Chains : loadFails(c)
    \/ \E c \in Chains : parseEvents(c)
    \/ \E c \in Chains : parseFails(c)
    \/ \E c \in Chains : storeFind(c)
    \/ \E c \in Chains : storeInsert(c)
    \/ \E c \in Chains : storeInsertFails(c)
    \/ \E c \in Chains : updateScraperState(c)
    \/ \E c \in Chains : updateScraperStateKeepsError(c)
    \/ \E c \in Chains : updateScraperStateFails(c)
    \/ \E c \in Chains : processChainResult(c)
    \/ \E c \in Chains : processChainCatch(c)
    \/ \E c \in Chains : callerCatch(c)
    \/ \E c \in Chains : unhandledRejection(c)

SpecControl == InitControl /\ [][NextControl]_vars

\* ================================================== control plane, add only
\* POST /chains on an empty registry
InitAdd ==
    /\ chainConfigs = [c \in Chains |-> NoConfig]
    /\ scraperStates = [c \in Chains |-> NoState]
    /\ events = EmptyBag
    /\ providers = {}
    /\ intervals = [c \in Chains |-> NoTimer]
    /\ ticks = [c \in Chains |-> EmptyBag]
    /\ latestBlock = [c \in Chains |-> DefaultStartingBlock + 2 * HeadStep]
    /\ headMoves = 0
    /\ ticksFired = 0
    /\ faults = 0
    /\ caller = NoCaller
    /\ alive = TRUE
    /\ timers = MapTimers
    /\ service = Service0

NextAdd ==
    \/ \E c \in Chains : requestAdd(c)
    \/ \E c \in Chains : addFind(c)
    \/ \E c \in Chains : probeOk(c)
    \/ \E c \in Chains : probeFails(c)
    \/ \E c \in Chains : addSave(c)
    \/ \E c \in Chains : addProvider(c)
    \/ \E c \in Chains : addProviderFails(c)
    \/ \E c \in Chains : addState(c)
    \/ \E c \in Chains : startCallBegin(c)
    \/ \E c \in Chains : startCallProviderFails(c)
    \/ \E c \in Chains : startChainInstall(c)
    \/ \E c \in Chains : TickerFires(c)
    \/ \E c \in Chains : calcReadState(c)
    \/ \E c \in Chains : calcPlan(c)
    \/ \E c \in Chains : calcFails(c)
    \/ \E c \in Chains : loadEvents(c)
    \/ \E c \in Chains : loadFails(c)
    \/ \E c \in Chains : parseEvents(c)
    \/ \E c \in Chains : parseFails(c)
    \/ \E c \in Chains : storeFind(c)
    \/ \E c \in Chains : storeInsert(c)
    \/ \E c \in Chains : storeInsertFails(c)
    \/ \E c \in Chains : updateScraperState(c)
    \/ \E c \in Chains : updateScraperStateFails(c)
    \/ \E c \in Chains : processChainResult(c)
    \/ \E c \in Chains : processChainCatch(c)
    \/ \E c \in Chains : callerCatch(c)

SpecAdd == InitAdd /\ [][NextAdd]_vars

\* ================================================ control plane, chain stopped
\* a chain added with the defaults, as a stop through the control plane left it
\* after its worker had scanned up to the head of that time
StoppedConfig ==
    [AddedConfig([NoInput EXCEPT !.rpcUrl = "rpc1"])
        EXCEPT !.workerStatus = "stopped", !.isEnabled = FALSE,
               !.lastWorkerStart = 2]

StoppedState ==
    [AddedState(NoInput) EXCEPT !.isActive = FALSE,
         !.lastProcessedBlock = DefaultStartingBlock + HeadStep]

StoppedEvents ==
    UNION { queryFilter(c, DefaultStartingBlock + 1,
                        DefaultStartingBlock + HeadStep) : c \in Chains }

InitStopped ==
    /\ chainConfigs = [c \in Chains |-> StoppedConfig]
    /\ scraperStates = [c \in Chains |-> StoppedState]
    /\ events = SetToBag(StoppedEvents)
    /\ providers = Chains
    /\ intervals = [c \in Chains |-> NoTimer]
    /\ ticks = [c \in Chains |-> EmptyBag]
    /\ latestBlock = [c \in Chains |-> DefaultStartingBlock + 2 * HeadStep]
    /\ headMoves = 0
    /\ ticksFired = 0
    /\ faults = 0
    /\ caller = NoCaller
    /\ alive = TRUE
    /\ timers = MapTimers
    /\ service = Service0

NextStopped ==
    \/ \E c \in Chains : requestStart(c)
    \/ \E c \in Chains : requestStop(c)
    \/ \E c \in Chains : requestUpdate(c)
    \/ \E c \in Chains : requestDelete(c)
    \/ \E c \in Chains : findConfig(c)
    \/ \E c \in Chains : stopWorker(c)
    \/ \E c \in Chains : deleteConfigDoc(c)
    \/ \E c \in Chains : deleteStateDoc(c)
    \/ \E c \in Chains : probeOk(c)
    \/ \E c \in Chains : probeFails(c)
    \/ \E c \in Chains : addProvider(c)
    \/ \E c \in Chains : addProviderFails(c)
    \/ \E c \in Chains : startCallBegin(c)
    \/ \E c \in Chains : startCallProviderFails(c)
    \/ \E c \in Chains : saveConfig(c)
    \/ \E c \in Chains : saveState(c)
    \/ \E c \in Chains : updateInterval(c)
    \/ \E c \in Chains : startChainInstall(c)
    \/ \E c \in Chains : TickerFires(c)
    \/ \E c \in Chains : calcReadState(c)
    \/ \E c \in Chains : calcPlan(c)
    \/ \E c \in Chains : calcFails(c)
    \/ \E c \in Chains : loadEvents(c)
    \/ \E c \in Chains : loadFails(c)
    \/ \E c \in Chains : parseEvents(c)
    \/ \E c \in Chains : parseFails(c)
    \/ \E c \in Chains : storeFind(c)
    \/ \E c \in Chains : storeInsert(c)
    \/ \E c \in Chains : storeInsertFails(c)
    \/ \E c \in Chains : updateScraperState(c)
    \/ \E c \in Chains : updateScraperStateKeepsError(c)
    \/ \E c \in Chains : updateScraperStateFails(c)
    \/ \E c \in Chains : processChainResult(c)
    \/ \E c \in Chains : processChainCatch(c)
    \/ \E c \in Chains : callerCatch(c)
    \/ \E c \in Chains : unhandledRejection(c)

SpecStopped == InitStopped /\ [][NextStopped]_vars

\* ============================== control plane, a start and a stop together
\* PUT /chains/:chainId/start and PUT /chains/:chainId/stop for the same chain
\* have both been received and neither handler has run yet; the chain is
\* running with its ticker, or stopped
InitStartStop ==
    /\ \E running \in BOOLEAN :
         /\ chainConfigs = [c \in Chains |-> IF running THEN RunningConfig
                                             ELSE StoppedConfig]
         /\ scraperStates = [c \in Chains |-> IF running THEN RunningState
                                              ELSE StoppedState]
         /\ intervals = [c \in Chains |-> IF running THEN "start" ELSE NoTimer]
    /\ events = SetToBag(StoppedEvents)
    /\ providers = Chains
    /\ ticks = [c \in Chains |->
                   SetToBag({NewRequest("start", "find", NoInput),
                             NewRequest("stop", "find", NoInput)})]
    /\ latestBlock = [c \in Chains |-> DefaultStartingBlock + 2 * HeadStep]
    /\ headMoves = 0
    /\ ticksFired = 0
    /\ faults = 0
    /\ caller = [calls |-> 2]
    /\ alive = TRUE
    /\ timers = MapTimers
    /\ service = Service0

NextStartStop ==
    \/ \E c \in Chains : findConfig(c)
    \/ \E c \in Chains : startCallNoop(c)
    \/ \E c \in Chains : startCallBegin(c)
    \/ \E c \in Chains : startCallProviderFails(c)
    \/ \E c \in Chains : stopWorker(c)
    \/ \E c \in Chains : saveConfig(c)
    \/ \E c \in Chains : saveState(c)
    \/ \E c \in Chains : startChainInstall(c)
    \/ \E c \in Chains : TickerFires(c)
    \/ \E c \in Chains : calcReadState(c)
    \/ \E c \in Chains : calcPlan(c)
    \/ \E c \in Chains : calcFails(c)
    \/ \E c \in Chains : loadEvents(c)
    \/ \E c \in Chains : loadFails(c)
    \/ \E c \in Chains : parseEvents(c)
    \/ \E c \in Chains : parseFails(c)
    \/ \E c \in Chains : storeFind(c)
    \/ \E c \in Chains : storeInsert(c)
    \/ \E c \in Chains : storeInsertFails(c)
    \/ \E c \in Chains : updateScraperState(c)
    \/ \E c \in Chains : updateScraperStateFails(c)
    \/ \E c \in Chains : processChainResult(c)
    \/ \E c \in Chains : processChainCatch(c)
    \/ \E c \in Chains : callerCatch(c)

SpecStartStop == InitStartStop /\ [][NextStartStop]_vars

\* ================================================================ shutdown
\* process.exit: every timer, every call in flight and the provider map go
\* with the process, the connection to the store is closed
exit ==
    /\ alive' = FALSE
    /\ intervals' = [c \in DOMAIN intervals |-> NoTimer]
    /\ timers' = [c \in DOMAIN timers |-> EmptyBag]
    /\ ticks' = [c \in DOMAIN ticks |-> EmptyBag]
    /\ providers' = {}

\* SIGINT or SIGTERM. The listeners run in the order they were registered:
\* DatabaseService.gracefulShutdown (registered in connect()) calls
\* mongoose.disconnect() and waits; then the server's listener calls
\* scraperService.gracefulShutdown(), whose stop() clears every timer of the
\* handle map, empties the map and waits for updateAllScraperStates('stopped')
signal ==
    /\ alive
    /\ service.shutdown = "idle"
    /\ service' = [service EXCEPT !.dbShutdown = "disconnecting",
                                  !.shutdown = "stopping"]
    /\ timers' = [c \in Chains |->
                    IF intervals[c] = NoTimer THEN timers[c]
                    ELSE timers[c] (-) SetToBag({intervals[c]})]
    /\ intervals' = [c \in Chains |-> NoTimer]
    /\ UNCHANGED <<chainConfigs, scraperStates, events, providers, ticks,
                   latestBlock, headMoves, ticksFired, faults, caller, alive>>

\* stop(): updateAllScraperStates' updateMany({isEnabled: true},
\* {workerStatus: 'stopped'}) was applied; isRunning = false and stop() returns
shutdownPersist ==
    /\ alive
    /\ service.shutdown = "stopping"
    /\ chainConfigs' = [c \in Chains |->
            IF chainConfigs[c] # NoConfig /\ chainConfigs[c].isEnabled
            THEN [chainConfigs[c] EXCEPT !.workerStatus = "stopped"]
            ELSE chainConfigs[c]]
    /\ service' = [service EXCEPT !.shutdown = "stopped", !.isRunning = FALSE]
    /\ UNCHANGED <<scraperStates, events, providers, intervals, ticks,
                   latestBlock, headMoves, ticksFired, faults, caller, alive, timers>>

\* stop(): the updateMany is rejected on the connection that is being closed;
\* updateAllScraperStates logs the error and stop() returns all the same
shutdownPersistFails ==
    /\ alive
    /\ service.shutdown = "stopping"
    /\ service' = [service EXCEPT !.shutdown = "stoppedUnsaved", !.isRunning = FALSE]
    /\ UNCHANGED <<chainConfigs, scraperStates, events, providers, intervals, ticks,
                   latestBlock, headMoves, ticksFired, faults, caller, alive, timers>>

\* gracefulShutdown: the shutdownTimeout wins the race, process.exit(1)
shutdownTimesOut ==
    /\ alive
    /\ service.shutdown = "stopping"
    /\ service' = [service EXCEPT !.shutdown = "timedOut", !.db = "disconnected"]
    /\ exit
    /\ UNCHANGED <<chainConfigs, scraperStates, events, latestBlock, headMoves,
                   ticksFired, faults, caller>>

\* DatabaseService.gracefulShutdown: mongoose.disconnect() resolved,
\* process.exit(0)
dbShutdownExit ==
    /\ alive
    /\ service.dbShutdown = "disconnecting"
    /\ service' = [service EXCEPT !.dbShutdown = "exited", !.db = "disconnected"]
    /\ exit
    /\ UNCHANGED <<chainConfigs, scraperStates, events, latestBlock, headMoves,
                   ticksFired, faults, caller>>

\* the server's listener after scraperService.gracefulShutdown() returned:
\* databaseService.disconnect(), process.exit(0)
serverExit ==
    /\ alive
    /\ service.shutdown \in {"stopped", "stoppedUnsaved"}
    /\ service' = [service EXCEPT !.shutdown = "exited", !.db = "disconnected"]
    /\ exit
    /\ UNCHANGED <<chainConfigs, scraperStates, events, latestBlock, headMoves,
                   ticksFired, faults, caller>>

\* the service with one chain running, or with one chain stopped through the
\* control plane
InitShutdown ==
    /\ \E running \in BOOLEAN :
         /\ chainConfigs = [c \in Chains |-> IF running THEN RunningConfig
                                             ELSE StoppedConfig]
         /\ scraperStates = [c \in Chains |-> IF running THEN RunningState
                                              ELSE StoppedState]
         /\ intervals = [c \in Chains |-> IF running THEN "start" ELSE NoTimer]
    /\ events = SetToBag(StoppedEvents)
    /\ providers = Chains
    /\ ticks = [c \in Chains |-> EmptyBag]
    /\ latestBlock = [c \in Chains |-> DefaultStartingBlock + 2 * HeadStep]
    /\ headMoves = 0
    /\ ticksFired = 0
    /\ faults = 0
    /\ caller = NoCaller
    /\ alive = TRUE
    /\ timers = MapTimers
    /\ service = Service0

NextShutdown ==
    \/ signal
    \/ shutdownPersist
    \/ shutdownPersistFails
    \/ shutdownTimesOut
    \/ dbShutdownExit
    \/ serverExit
    \/ \E c \in Chains : requestStart(c)
    \/ \E c \in Chains : findConfig(c)
    \/ \E c \in Chains : startCallNoop(c)
    \/ \E c \in Chains : startCallBegin(c)
    \/ \E c \in Chains : startCallProviderFails(c)
    \/ \E c \in Chains : saveConfig(c)
    \/ \E c \in Chains : saveState(c)
    \/ \E c \in Chains : startChainInstall(c)
    \/ \E c \in Chains : TickerFires(c)
    \/ \E c \in Chains : calcReadState(c)
    \/ \E c \in Chains : calcPlan(c)
    \/ \E c \in Chains : calcFails(c)
    \/ \E c \in Chains : loadEvents(c)
    \/ \E c \in Chains : loadFails(c)
    \/ \E c \in Chains : parseEvents(c)
    \/ \E c \in Chains : parseFails(c)
    \/ \E c \in Chains : storeFind(c)
    \/ \E c \in Chains : storeInsert(c)
    \/ \E c \in Chains : storeInsertFails(c)
    \/ \E c \in Chains : updateScraperState(c)
    \/ \E c \in Chains : updateScraperStateKeepsError(c)
    \/ \E c \in Chains : updateScraperStateFails(c)
    \/ \E c \in Chains : processChainResult(c)
    \/ \E c \in Chains : processChainCatch(c)
    \/ \E c \in Chains : callerCatch(c)

SpecShutdown == InitShutdown /\ [][NextShutdown]_vars

\* ===================================================== the RPC retry loops
DefaultRetryAttempts == 3

MinRetryAttempts == 1

\* chainConfig?.retryAttempts || 3
EffectiveRetryAttempts(cfg) ==
    IF cfg = NoConfig THEN DefaultRetryAttempts
    ELSE IF cfg.retryAttempts = 0 THEN DefaultRetryAttempts
    ELSE cfg.retryAttempts

\* a tick with the failed attempts of its two RPC calls counted
NewRetryTick ==
    NewTick("start") @@ [latestFailed |-> 0, loadFailed |-> 0]

\* a running chain whose configuration carries a retry budget, or whose
\* configuration was deleted under its ticker
InitRetry ==
    /\ \/ \E r \in MinRetryAttempts .. DefaultRetryAttempts :
            chainConfigs = [c \in Chains |->
                [Config0 EXCEPT !.workerStatus = "running"] @@ [retryAttempts |-> r]]
       \/ chainConfigs = [c \in Chains |-> NoConfig]
    /\ scraperStates = [c \in Chains |-> State0(Config0)]
    /\ events = EmptyBag
    /\ providers = Chains
    /\ intervals = [c \in Chains |-> "start"]
    /\ ticks = [c \in Chains |-> EmptyBag]
    /\ latestBlock = [c \in Chains |-> DefaultStartingBlock + HeadStep]
    /\ headMoves = 0
    /\ ticksFired = 0
    /\ faults = 0
    /\ caller = NoCaller
    /\ alive = TRUE
    /\ timers = MapTimers
    /\ service = Service0

\* the ticker fires: processChain starts with no attempt made
retryTickFires(c) ==
    /\ ticksFired < MaxTicks
    /\ InFlight(c) < MaxInFlight
    /\ BagIn("start", timers[c])
    /\ Spawn(c, NewRetryTick)
    /\ ticksFired' = ticksFired + 1
    /\ UNCHANGED <<chainConfigs, scraperStates, events, providers, intervals,
                   latestBlock, headMoves, faults, caller, alive, timers, service>>

\* mutant: the loop of getLatestBlockNumber runs one attempt more than
\* retryAttempts
latestAttemptFailsOnceMore(c) ==
    \E f \in Frames(c) :
        /\ f.pc = "calcLatest"
        /\ c \in providers
        /\ SetTick(c, f,
             IF f.latestFailed + 1 <= EffectiveRetryAttempts(chainConfigs[c])
             THEN [f EXCEPT !.latestFailed = @ + 1]
             ELSE [f EXCEPT !.latestFailed = @ + 1, !.pc = "handleError"])
        /\ UNCHANGED <<chainConfigs, scraperStates, events, providers, intervals,
                       latestBlock, headMoves, ticksFired, faults, caller, alive, timers, service>>

\* getLatestBlockNumber: provider.getBlockNumber() of the current attempt
\* throws; another attempt follows if attempt < retryAttempts, otherwise the
\* loop ends and lastError is thrown into processChain's catch
latestAttemptFails(c) ==
    \E f \in Frames(c) :
        /\ f.pc = "calcLatest"
        /\ c \in providers
        /\ SetTick(c, f,
             IF f.latestFailed + 1 < EffectiveRetryAttempts(chainConfigs[c])
             THEN [f EXCEPT !.latestFailed = @ + 1]
             ELSE [f EXCEPT !.latestFailed = @ + 1, !.pc = "handleError"])
        /\ UNCHANGED <<chainConfigs, scraperStates, events, providers, intervals,
                       latestBlock, headMoves, ticksFired, faults, caller, alive, timers, service>>

\* loadFeeCollectorEvents: contract.queryFilter of the current attempt throws;
\* after the last attempt lastError is thrown into processBlockRange's catch
loadAttemptFails(c) ==
    \E f \in Frames(c) :
        /\ f.pc = "load"
        /\ c \in providers
        /\ SetTick(c, f,
             IF f.loadFailed + 1 < EffectiveRetryAttempts(chainConfigs[c])
             THEN [f EXCEPT !.loadFailed = @ + 1]
             ELSE Failed([f EXCEPT !.loadFailed = @ + 1], "rpc"))
        /\ UNCHANGED <<chainConfigs, scraperStates, events, providers, intervals,
                       latestBlock, headMoves, ticksFired, faults, caller, alive, timers, service>>

NextRetry ==
    \/ \E c \in Chains : retryTickFires(c)
    \/ \E c \in Chains : calcReadState(c)
    \/ \E c \in Chains : latestAttemptFails(c)
    \/ \E c \in Chains : calcPlan(c)
    \/ \E c \in Chains : loadAttemptFails(c)
    \/ \E c \in Chains : loadEvents(c)
    \/ \E c \in Chains : parseEvents(c)
    \/ \E c \in Chains : storeFind(c)
    \/ \E c \in Chains : storeInsert(c)
    \/ \E c \in Chains : updateScraperState(c)
    \/ \E c \in Chains : processChainResult(c)
    \/ \E c \in Chains : processChainCatch(c)
    \/ \E c \in Chains : callerCatch(c)

SpecRetry == InitRetry /\ [][NextRetry]_vars

\* ===================================================== two running chains
TwoChains == {137, 1}

\* two chains added with the defaults and running, each with the ticker
\* startChain installed or the one a later update of scanInterval installed
InitChains ==
    /\ chainConfigs = [c \in TwoChains |->
          [Config0 EXCEPT !.workerStatus = "running", !.lastWorkerStart = 2]]
    /\ scraperStates = [c \in TwoChains |-> State0(Config0)]
    /\ events = EmptyBag
    /\ providers = TwoChains
    /\ intervals \in [TwoChains -> {"start", "update"}]
    /\ ticks = [c \in TwoChains |-> EmptyBag]
    /\ latestBlock = [c \in TwoChains |-> DefaultStartingBlock + HeadStep]
    /\ headMoves = 0
    /\ ticksFired = 0
    /\ faults = 0
    /\ caller = NoCaller
    /\ alive = TRUE
    /\ timers = [c \in TwoChains |-> SetToBag({intervals[c]})]
    /\ service = Service0

NextChains ==
    \/ \E c \in TwoChains : TickerFires(c)
    \/ \E c \in TwoChains : calcReadState(c)
    \/ \E c \in TwoChains : calcPlan(c)
    \/ \E c \in TwoChains : calcFails(c)
    \/ \E c \in TwoChains : loadEvents(c)
    \/ \E c \in TwoChains : loadFails(c)
    \/ \E c \in TwoChains : parseEvents(c)
    \/ \E c \in TwoChains : parseFails(c)
    \/ \E c \in TwoChains : storeFind(c)
    \/ \E c \in TwoChains : storeInsert(c)
    \/ \E c \in TwoChains : storeInsertFails(c)
    \/ \E c \in TwoChains : updateScraperState(c)
    \/ \E c \in TwoChains : updateScraperStateFails(c)
    \/ \E c \in TwoChains : processChainResult(c)
    \/ \E c \in TwoChains : processChainCatch(c)
    \/ \E c \in TwoChains : callerCatch(c)
    \/ \E c \in TwoChains : unhandledRejection(c)

SpecChains == InitChains /\ [][NextChains]_vars

\* ================================================= startup of the service
\* startServer has connected the database and calls scraperService.start():
\* two enabled chains are stored, as a graceful shutdown left them; start() is
\* in initializeProviders, which walks the enabled chains in the order find()
\* returned them
InitStartup ==
    /\ chainConfigs = [c \in TwoChains |-> Config0]
    /\ scraperStates = [c \in TwoChains |-> State0(Config0)]
    /\ events = EmptyBag
    /\ providers = {}
    /\ intervals = [c \in TwoChains |-> NoTimer]
    /\ ticks = [c \in TwoChains |-> EmptyBag]
    /\ latestBlock = [c \in TwoChains |-> DefaultStartingBlock + HeadStep]
    /\ headMoves = 0
    /\ ticksFired = 0
    /\ faults = 0
    /\ caller = NoCaller
    /\ alive = TRUE
    /\ timers = [c \in TwoChains |-> EmptyBag]
    /\ \E enabled \in {<<137, 1>>, <<1, 137>>} :
         service = [Service0 EXCEPT !.isRunning = FALSE]
                       @@ [start |-> "providers", enabled |-> enabled,
                           pending |-> enabled]

\* initializeProviders: addProvider for the next enabled chain passed its
\* health check; after the last one start() goes on to startAllChains
initializeProvider(c) ==
    /\ alive
    /\ service.start = "providers"
    /\ c = Head(service.pending)
    /\ providers' = providers \cup {c}
    /\ service' = IF Tail(service.pending) = << >>
                  THEN [service EXCEPT !.start = "chains", !.pending = service.enabled]
                  ELSE [service EXCEPT !.pending = Tail(@)]
    /\ UNCHANGED <<chainConfigs, scraperStates, events, intervals, ticks, latestBlock,
                   headMoves, ticksFired, faults, caller, alive, timers>>

\* initializeProviders: addProvider throws for the next enabled chain; the loop
\* has no catch, initializeProviders and start() rethrow, startServer's catch
\* calls process.exit(1)
initializeProviderFails(c) ==
    /\ alive
    /\ service.start = "providers"
    /\ c = Head(service.pending)
    /\ CanFault
    /\ faults' = faults + 1
    /\ service' = [service EXCEPT !.start = "failed", !.db = "disconnected"]
    /\ exit
    /\ UNCHANGED <<chainConfigs, scraperStates, events, latestBlock, headMoves,
                   ticksFired, caller>>

\* startAllChains: await this.startChain(chainId) for the next enabled chain,
\* once the call for the chain before it has returned or thrown into the catch
\* of the loop
startAllChainsNext(c) ==
    /\ alive
    /\ service.start = "chains"
    /\ service.pending # << >>
    /\ c = Head(service.pending)
    /\ \A d \in TwoChains : \A f \in Frames(d) :
           f.request = "supervisor" => f.pc = "responded"
    /\ Spawn(c, NewRequest("supervisor", "startCall", NoInput))
    /\ service' = [service EXCEPT !.pending = Tail(@)]
    /\ UNCHANGED <<chainConfigs, scraperStates, events, providers, intervals,
                   latestBlock, headMoves, ticksFired, faults, caller, alive, timers>>

\* start(): startAllChains returned, this.isRunning = true
startCompletes ==
    /\ alive
    /\ service.start = "chains"
    /\ service.pending = << >>
    /\ \A d \in TwoChains : \A f \in Frames(d) :
           f.request = "supervisor" => f.pc = "responded"
    /\ service' = [service EXCEPT !.start = "done", !.isRunning = TRUE]
    /\ UNCHANGED <<chainConfigs, scraperStates, events, providers, intervals, ticks,
                   latestBlock, headMoves, ticksFired, faults, caller, alive, timers>>

NextStartup ==
    \/ \E c \in TwoChains : initializeProvider(c)
    \/ \E c \in TwoChains : initializeProviderFails(c)
    \/ \E c \in TwoChains : startAllChainsNext(c)
    \/ startCompletes
    \/ \E c \in TwoChains : startCallBegin(c)
    \/ \E c \in TwoChains : startCallProviderFails(c)
    \/ \E c \in TwoChains : startChainInstall(c)
    \/ \E c \in TwoChains : TickerFires(c)
    \/ \E c \in TwoChains : calcReadState(c)
    \/ \E c \in TwoChains : calcPlan(c)
    \/ \E c \in TwoChains : calcFails(c)
    \/ \E c \in TwoChains : loadEvents(c)
    \/ \E c \in TwoChains : loadFails(c)
    \/ \E c \in TwoChains : parseEvents(c)
    \/ \E c \in TwoChains : parseFails(c)
    \/ \E c \in TwoChains : storeFind(c)
    \/ \E c \in TwoChains : storeInsert(c)
    \/ \E c \in TwoChains : storeInsertFails(c)
    \/ \E c \in TwoChains : updateScraperState(c)
    \/ \E c \in TwoChains : updateScraperStateFails(c)
    \/ \E c \in TwoChains : processChainResult(c)
    \/ \E c \in TwoChains : processChainCatch(c)
    \/ \E c \in TwoChains : callerCatch(c)

SpecStartup == InitStartup /\ [][NextStartup]_vars

\* ============================================== a running chain, head fixed
\* the ticker of a running chain keeps firing for as long as it is installed
TickerFiresAgain(c) ==
    /\ alive
    /\ BagIn("start", timers[c])
    /\ InFlight(c) < MaxInFlight
    /\ Spawn(c, NewTick("start"))
    /\ UNCHANGED <<chainConfigs, scraperStates, events, providers, intervals,
                   latestBlock, headMoves, ticksFired, faults, caller, alive, timers, service>>

\* a chain added with the default starting block and maxBlockRange 100, its
\* ticker installed by startChain, the latest block two head steps ahead
InitProgress ==
    /\ chainConfigs = [c \in Chains |->
          [Config0 EXCEPT !.workerStatus = "running", !.lastWorkerStart = 2]]
    /\ scraperStates = [c \in Chains |-> State0(Config0)]
    /\ events = EmptyBag
    /\ providers = Chains
    /\ intervals = [c \in Chains |-> "start"]
    /\ ticks = [c \in Chains |-> EmptyBag]
    /\ latestBlock = [c \in Chains |-> DefaultStartingBlock + 2 * HeadStep]
    /\ headMoves = 0
    /\ ticksFired = 0
    /\ faults = 0
    /\ caller = NoCaller
    /\ alive = TRUE
    /\ timers = MapTimers
    /\ service = Service0

NextProgress ==
    \/ \E c \in Chains : TickerFiresAgain(c)
    \/ \E c \in Chains : calcReadState(c)
    \/ \E c \in Chains : calcPlan(c)
    \/ \E c \in Chains : calcFails(c)
    \/ \E c \in Chains : loadEvents(c)
    \/ \E c \in Chains : loadFails(c)
    \/ \E c \in Chains : parseEvents(c)
    \/ \E c \in Chains : parseFails(c)
    \/ \E c \in Chains : storeFind(c)
    \/ \E c \in Chains : storeInsert(c)
    \/ \E c \in Chains : storeInsertFails(c)
    \/ \E c \in Chains : updateScraperState(c)
    \/ \E c \in Chains : updateScraperStateFails(c)
    \/ \E c \in Chains : processChainResult(c)
    \/ \E c \in Chains : processChainCatch(c)
    \/ \E c \in Chains : callerCatch(c)

\* setInterval keeps firing, and every awaited call of a tick settles: once the
\* failures are used up it settles with its result
FairProgress ==
    \A c \in Chains :
        /\ WF_vars(TickerFiresAgain(c))
        /\ WF_vars(calcReadState(c))
        /\ WF_vars(calcPlan(c))
        /\ WF_vars(loadEvents(c))
        /\ WF_vars(parseEvents(c))
        /\ WF_vars(storeFind(c))
        /\ WF_vars(storeInsert(c))
        /\ WF_vars(updateScraperState(c))
        /\ WF_vars(processChainResult(c))
        /\ WF_vars(processChainCatch(c))
        /\ WF_vars(callerCatch(c))

SpecProgress == InitProgress /\ [][NextProgress]_vars /\ FairProgress

\* =================================================================== claims
\* a frame is inside processChain (calculateBlockRange, processBlockRange or
\* processChain's own catch)
InProcessChain(f) ==
    f.pc \in {"calcState", "calcLatest", "load", "parse", "storeFind",
              "storeInsert", "updateState", "returned", "handleError"}

\* the number of frames of a chain inside processChain
TicksInFlight(c) ==
    BagCardinality([f \in { g \in Frames(c) : InProcessChain(g) } |->
                        CopiesIn(f, ticks[c])])

\* this step is frame f of chain c committing its window
Commits(c, f) ==
    /\ f.pc = "updateState"
    /\ ticks'[c] = Moved(ticks[c], f, Succeeded(f))

\* C1: for every chain, lastProcessedBlock never decreases: each commit writes a
\* value >= the one stored before it, across any interleaving of ticks.
C1_MonotoneCursor ==
    [][\A c \in Chains :
         (scraperStates[c] # NoState /\ scraperStates'[c] # NoState)
           => scraperStates'[c].lastProcessedBlock
                >= scraperStates[c].lastProcessedBlock]_vars

\* C2: the event store holds at most one document per natural key
\* (chainId, transactionHash, logIndex).
C2_DedupUnique ==
    \A d \in BagToSet(events) :
        /\ CopiesIn(d, events) = 1
        /\ \A e \in BagToSet(events) : EventKey(d) = EventKey(e) => d = e

\* C3: every log the RPC serves for a block after the chain's starting cursor and
\* up to its current lastProcessedBlock is in the event store.
C3_NoEventLoss ==
    \A c \in Chains :
        (chainConfigs[c] # NoConfig /\ scraperStates[c] # NoState)
          => \A l \in RpcLogs(c) :
                (/\ chainConfigs[c].startingBlock < l.blockNumber
                 /\ l.blockNumber <= scraperStates[c].lastProcessedBlock)
                  => BagIn(l, events)

\* C3 witness: a window holding logs was committed after a failed insert had left
\* only part of it in the store.
C3_Witness ==
    \E c \in Chains :
        /\ scraperStates[c] # NoState
        /\ scraperStates[c].lastProcessedBlock >= DefaultStartingBlock + 20
        /\ faults > 0
        /\ \A l \in RpcLogs(c) :
              l.blockNumber <= scraperStates[c].lastProcessedBlock => BagIn(l, events)
        /\ \E f \in Frames(c) :
              /\ f.pc = "returned"
              /\ f.result.success
              /\ f.result.processedEvents = 1

\* C4: at most one tick of a chain is inside processChain at any time.
C4_TickSerialization ==
    \A c \in Chains : TicksInFlight(c) <= 1

\* C5: a window is committed only if its fromBlock is the lastProcessedBlock
\* stored by the previous commit plus 1.
C5_NoRescan ==
    [][\A c \in Chains : \A f \in Frames(c) :
         Commits(c, f)
           => /\ scraperStates[c] # NoState
              /\ f.fromBlock = scraperStates[c].lastProcessedBlock + 1]_vars

\* this step is frame f of chain c getting window g from calculateBlockRange
Plans(c, f, g) ==
    /\ f.pc = "calcLatest"
    /\ g.pc = "load"
    /\ ticks'[c] = Moved(ticks[c], f, g)

\* C6: every planned window has at most maxBlockRange blocks and ends at or
\* before the latest block read when it was planned.
C6_WindowBound ==
    [][\A c \in Chains : \A f \in Frames(c) : \A g \in BagToSet(ticks'[c]) :
         Plans(c, f, g)
           => /\ g.fromBlock <= g.toBlock
              /\ g.toBlock - g.fromBlock + 1 <= EffectiveMaxRange(chainConfigs[c])
              /\ g.toBlock <= latestBlock[c]]_vars

\* C6 witness: a window cut by maxBlockRange below the latest block is planned.
C6_Witness ==
    \E c \in Chains : \E f \in Frames(c) :
        /\ f.pc = "load"
        /\ f.toBlock - f.fromBlock + 1 = chainConfigs[c].maxBlockRange
        /\ f.toBlock < latestBlock[c]

\* the step by which a direct call of calculateBlockRange returns
PlannerReturns(c, f) == f.pc = "calcLatest" /\ ticks'[c] # ticks[c]

\* the result the claim's arithmetic gives for a cursor, checked against the
\* frame the call left
PlannerResultIs(c, cursor) ==
    LET fromBlock == cursor + 1
        capped == fromBlock + chainConfigs[c].maxBlockRange - 1
        toBlock == IF capped <= latestBlock[c] THEN capped ELSE latestBlock[c]
    IN  IF fromBlock > toBlock
        THEN ticks'[c] = EmptyBag
        ELSE \E g \in BagToSet(ticks'[c]) :
                /\ g.pc = "load"
                /\ g.fromBlock = fromBlock
                /\ g.toBlock = toBlock

C8_FailureKeepsCursor ==
    \A c \in Chains : \A f \in Frames(c) :
        (f.pc = "returned" /\ ~f.result.success)
          => /\ scraperStates[c] # NoState
             /\ scraperStates[c].lastProcessedBlock
                   = caller.stateBefore.lastProcessedBlock

\* C8 witness: a call failed in insertMany after part of the window was written.
C8_Witness ==
    \E c \in Chains : \E f \in Frames(c) :
        /\ f.pc = "returned"
        /\ f.result.error = "store"
        /\ events # caller.eventsBefore
        /\ scraperStates[c].lastProcessedBlock < f.toBlock

\* C9: with the RPC and the store working, processBlockRange on a range without
\* logs succeeds with zero processed events, stores nothing and sets
\* lastProcessedBlock to toBlock.
C9_EmptyWindow ==
    \A c \in Chains : \A f \in Frames(c) :
        (/\ f.pc = "returned"
         /\ queryFilter(c, f.fromBlock, f.toBlock) = {}
         /\ faults = 0)
          => /\ f.result.success
             /\ f.result.processedEvents = 0
             /\ events = caller.eventsBefore
             /\ scraperStates[c] # NoState
             /\ scraperStates[c].lastProcessedBlock = f.toBlock

\* C9 witness: a call on a range without logs returned and moved the cursor.
C9_Witness ==
    \E c \in Chains : \E f \in Frames(c) :
        /\ f.pc = "returned"
        /\ queryFilter(c, f.fromBlock, f.toBlock) = {}
        /\ f.result.success
        /\ caller.stateBefore.lastProcessedBlock # f.toBlock
        /\ scraperStates[c].lastProcessedBlock = f.toBlock

\* C10: two successful runs of processBlockRange on the same window in sequence
\* leave the store as the first run left it, and the second reports zero
\* newly stored events.
C10_IdempotentReprocess ==
    (/\ caller.calls >= 2
     /\ Len(caller.results) >= 2
     /\ caller.results[1].success
     /\ caller.results[2].success)
      => /\ events = caller.eventsAfterFirst
         /\ caller.results[2].processedEvents = 0

\* C10 witness: the first run stored events and the second run succeeded too.
C10_Witness ==
    /\ caller.calls >= 2
    /\ Len(caller.results) >= 2
    /\ caller.results[1].success
    /\ caller.results[1].processedEvents > 0
    /\ caller.results[2].success

\* --------------------------------------------------- control-plane claims
\* the first tick of the chain an add request created: the initial
\* processChain of the startChain that addChain awaits
FirstTickOfAdd(f) == f.request = "add" /\ f.origin = "initial"

\* C11: after add(cfg) creates a chain, the first window the planner produces
\* for it starts at cfg.startingBlock (the default starting block when none is
\* given), so that block startingBlock itself is scanned.
C11_FirstWindowFromStartingBlock ==
    \A c \in Chains : \A f \in Frames(c) :
        (FirstTickOfAdd(f) /\ f.pc = "load")
          => f.fromBlock = AddedConfig(f.input).startingBlock

\* the step is frame f of chain c ending with the response status
Responds(c, f, status) ==
    /\ f.pc # "responded"
    /\ ticks' = [ticks EXCEPT ![c] = Moved(@, f, Responded(f, status))]

\* C12: an add, or an update whose patch changes rpcUrl, writes a chain
\* configuration only after validateProvider(rpcUrl) resolved; when it throws,
\* the request is answered 400 and no configuration, scraper state, provider,
\* ticker or stored event is created or changed.
C12_ProbeGate ==
    [][\A c \in Chains :
         /\ (chainConfigs[c] = NoConfig /\ chainConfigs'[c] # NoConfig)
              => \E f \in Frames(c) : f.request = "add" /\ f.probed
         /\ (/\ chainConfigs[c] # NoConfig
             /\ chainConfigs'[c] # NoConfig
             /\ chainConfigs'[c].rpcUrl # chainConfigs[c].rpcUrl)
              => \E f \in Frames(c) : f.request = "update" /\ f.probed
         /\ \A f \in Frames(c) :
              (f.pc = "probe" /\ Responds(c, f, "400"))
                => UNCHANGED <<chainConfigs, scraperStates, providers, intervals,
                               events>>]_vars

\* C12 witness: an update that changes rpcUrl was answered 400 after its probe
\* failed, and the stored rpcUrl is the old one.
C12_Witness ==
    \E c \in Chains : \E f \in Frames(c) :
        /\ f.pc = "responded"
        /\ f.status = "400"
        /\ f.request = "update"
        /\ f.input.rpcUrl = "rpc2"
        /\ chainConfigs[c] # NoConfig
        /\ chainConfigs[c].rpcUrl = "rpc1"

\* the step is taken by frame f of chain c (and is not the exit of the process)
Steps(c, f) ==
    /\ CopiesIn(f, ticks'[c]) < CopiesIn(f, ticks[c])
    /\ alive'

\* C13: add(cfg) for a chainId that already has a chain configuration is
\* answered 409 and leaves the configuration, the scraper state, the provider,
\* the ticker and the stored events of that chain unchanged.
C13_DuplicateAdd ==
    [][\A c \in Chains : \A f \in Frames(c) :
         (/\ f.pc = "addFind"
          /\ chainConfigs[c] # NoConfig
          /\ Steps(c, f))
           => /\ Responds(c, f, "409")
              /\ UNCHANGED <<chainConfigs, scraperStates, providers, intervals,
                             events>>]_vars

\* C13 witness: an add was answered 409 while the chain it named is configured
\* and its ticker is installed.
C13_Witness ==
    \E c \in Chains : \E f \in Frames(c) :
        /\ f.pc = "responded"
        /\ f.request = "add"
        /\ f.status = "409"
        /\ chainConfigs[c] # NoConfig
        /\ intervals[c] # NoTimer

\* C14: ScraperService.startChain on a configured chain that already has an
\* installed ticker returns without changing the ticker, workerStatus,
\* lastWorkerStart (the chain configuration), the scraper state, the provider
\* or the store, and without running a tick.
C14_StartNoop ==
    [][\A c \in Chains : \A f \in Frames(c) :
         (/\ f.pc = "startCall"
          /\ chainConfigs[c] # NoConfig
          /\ intervals[c] # NoTimer
          /\ Steps(c, f))
           => /\ ticks' = [ticks EXCEPT ![c] = Moved(@, f, Returned(f))]
              /\ Returned(f).pc \in {"responded", "save"}
              /\ UNCHANGED <<chainConfigs, scraperStates, providers, intervals,
                             events>>]_vars

\* C14 witness: a direct startChain on the running chain returned, and the
\* ticker and the stamps of its configuration are the ones it found.
C14_Witness ==
    \E c \in Chains : \E f \in Frames(c) :
        /\ f.pc = "responded"
        /\ f.request = "supervisor"
        /\ f.status = "returned"
        /\ intervals[c] = "start"
        /\ chainConfigs[c] = RunningConfig
        /\ scraperStates[c] = RunningState

\* C15: ScraperService.startChain for a chainId without a chain configuration
\* throws and installs no ticker for that chain.
C15_StartUnknown ==
    [][\A c \in Chains : \A f \in Frames(c) :
         (/\ f.pc = "startCall"
          /\ chainConfigs[c] = NoConfig
          /\ Steps(c, f))
           => /\ ticks' = [ticks EXCEPT ![c] = Moved(@, f, Thrown(f))]
              /\ Thrown(f).status \in {"thrown", "500"}
              /\ UNCHANGED <<intervals, providers, chainConfigs, events>>]_vars

\* C15 witness: a direct startChain on the empty registry has thrown and the
\* chain has no ticker.
C15_Witness ==
    \E c \in Chains : \E f \in Frames(c) :
        /\ f.pc = "responded"
        /\ f.request = "supervisor"
        /\ f.status = "thrown"
        /\ chainConfigs[c] = NoConfig
        /\ intervals[c] = NoTimer

\* C16: when the control plane's stop(chainId) on a chain with a live worker
\* completes, no ticker is installed for the chain, its workerStatus is
\* 'stopped', isEnabled is false and the scraper state's isActive is false.
C16_StopPostcondition ==
    [][\A c \in Chains : \A f \in Frames(c) :
         (f.request = "stop" /\ Responds(c, f, "200"))
           => /\ intervals'[c] = NoTimer
              /\ chainConfigs'[c] # NoConfig
              /\ chainConfigs'[c].workerStatus = "stopped"
              /\ ~chainConfigs'[c].isEnabled
              /\ scraperStates'[c] # NoState
              /\ ~scraperStates'[c].isActive]_vars

\* C17: when delete(chainId) completes for a chain whose ticker is installed
\* (whatever its persisted workerStatus), no ticker remains for the chain, its
\* chain configuration and scraper state are absent, and every event stored
\* before is still in the store.
C17_DeleteLiveWorker ==
    [][\A c \in Chains : \A f \in Frames(c) :
         (f.request = "delete" /\ Responds(c, f, "200"))
           => /\ intervals'[c] = NoTimer
              /\ chainConfigs'[c] = NoConfig
              /\ scraperStates'[c] = NoState
              /\ events \sqsubseteq events']_vars

\* a tick the installed ticker fired, in the failure path of processChain or
\* of the callback that called it
FailingScheduledTick(f) ==
    /\ f.origin \in {"start", "update"}
    /\ f.pc \in {"handleError", "callbackCatch", "unhandled"}

\* C18: when a scheduled tick fails, the chain's workerStatus becomes 'error',
\* lastError and lastWorkerError record the failure, and the chain's ticker
\* stays installed through every step of the failure path.
C18_ErrorKeepsTicker ==
    [][\A c \in Chains : \A f \in Frames(c) :
         (/\ FailingScheduledTick(f)
          /\ CopiesIn(f, ticks'[c]) < CopiesIn(f, ticks[c]))
           => /\ intervals'[c] = intervals[c]
              /\ (f.pc = "handleError" /\ chainConfigs[c] # NoConfig)
                   => /\ chainConfigs'[c].workerStatus = "error"
                      /\ chainConfigs'[c].lastWorkerError
                      /\ scraperStates'[c].lastError]_vars

\* the step in which processChain, called by the ticker's callback, returns
\* normally: the planner returned null, or processBlockRange reported success
TickSucceeds(c, f) ==
    /\ f.origin \in {"start", "update"}
    /\ \/ f.pc = "calcLatest"
       \/ f.pc = "returned" /\ f.result.success
    /\ ticks' = [ticks EXCEPT ![c] = Moved(@, f, Finished)]
    /\ alive'

\* C19: if a chain is in 'error' after a failed tick and a later tick of that
\* chain succeeds, then after that tick errorCount is 0, lastError is cleared,
\* and the chain configuration's workerStatus is back to 'running' with
\* lastWorkerError cleared.
C19_Recovery ==
    [][\A c \in Chains : \A f \in Frames(c) :
         (/\ TickSucceeds(c, f)
          /\ chainConfigs[c] # NoConfig
          /\ chainConfigs[c].workerStatus = "error"
          /\ scraperStates[c] # NoState)
           => /\ scraperStates'[c].errorCount = 0
              /\ ~scraperStates'[c].lastError
              /\ chainConfigs'[c].workerStatus = "running"
              /\ ~chainConfigs'[c].lastWorkerError]_vars

\* the chain's cursor has reached the latest block
AtHead(c) ==
    /\ scraperStates[c] # NoState
    /\ scraperStates[c].lastProcessedBlock = latestBlock[c]

\* C20: for a running chain whose latest block stays at L, once the failures
\* have stopped the cursor eventually equals L under fair scheduling of the
\* ticks, and from then on no tick changes the cursor or the store.
C20_SettledAtHead ==
    [][\A c \in Chains :
         AtHead(c) => /\ AtHead(c)'
                      /\ events' = events]_vars

\* C20, the eventual part alone: under fair scheduling the cursor is eventually
\* at the latest block for good, whatever ticks overlapped on the way.
C20_EventuallyAtHead == <>[](\A c \in Chains : AtHead(c))

\* C21: update(chainId, patch) with a new scanInterval applied to a stopped
\* chain (no ticker installed) changes the stored scanInterval but installs no
\* ticker and causes no tick.
C21_UpdateStoppedChain ==
    [][\A c \in Chains : \A f \in Frames(c) :
         (/\ f.request = "update"
          /\ f.input.scanInterval # 0
          /\ Steps(c, f)
          /\ intervals[c] = NoTimer
          /\ timers[c] = EmptyBag)
           => /\ intervals'[c] = NoTimer
              /\ timers'[c] = EmptyBag]_vars

\* C22: after updateInterval(chainId, newMs) on a chain that has a ticker in
\* the handle map, exactly one ticker is installed for the chain, the one of
\* the new interval (the old one is cancelled), and a tick in flight at the
\* time of the update is left to run.
C22_SingleTicker ==
    [][\A c \in Chains :
         (/\ alive'
          /\ intervals[c] # NoTimer
          /\ intervals'[c] = "update"
          /\ timers'[c] # timers[c])
           => /\ timers'[c] = SetToBag({"update"})
              /\ \A f \in Frames(c) :
                   InProcessChain(f) => CopiesIn(f, ticks'[c]) = CopiesIn(f, ticks[c])]_vars

\* C25: a log that cannot be decoded is skipped: with a provider registered,
\* the parse step of a tick always goes on to store the logs it kept, so the
\* tick can succeed and move the cursor to the end of its window.
C25_UndecodableSkipped ==
    [][\A c \in Chains : \A f \in Frames(c) :
         (/\ f.pc = "parse"
          /\ c \in providers
          /\ Steps(c, f))
           => \E kept \in SUBSET f.rawEvents :
                ticks'[c] = Moved(ticks[c], f,
                                  [f EXCEPT !.pc = "storeFind", !.rawEvents = kept])]_vars

\* C26: when an add passed validation and the probe and the start of the
\* chain fails (the add is answered 500 out of its call of startChain, the
\* configuration it saved not having been deleted by another request), the
\* chain configuration stays persisted with workerStatus
\* 'error' and the error recorded: it is neither removed nor left 'starting'.
C26_StartFailureRecorded ==
    [][\A c \in Chains : \A f \in Frames(c) :
         (/\ f.request = "add"
          /\ f.pc \in {"startCall", "startCatch"}
          /\ chainConfigs[c] # NoConfig
          /\ Responds(c, f, "500"))
           => /\ chainConfigs'[c] # NoConfig
              /\ chainConfigs'[c].workerStatus = "error"
              /\ chainConfigs'[c].lastWorkerError]_vars

\* C26 witness: an add that passed its probe was answered 500 and the chain
\* configuration it saved is stored with workerStatus 'error'.
C26_Witness ==
    \E c \in Chains : \E f \in Frames(c) :
        /\ f.pc = "responded"
        /\ f.request = "add"
        /\ f.status = "500"
        /\ f.probed
        /\ chainConfigs[c] # NoConfig
        /\ chainConfigs[c].workerStatus = "error"
        /\ scraperStates[c] # NoState

\* C27: the event store is append-only: no step of a request (add, start,
\* stop, update, delete) or of a tick removes or changes a stored event.
C27_AppendOnly ==
    [][events \sqsubseteq events']_vars

\* C27 witness: a delete was answered 200, the chain's configuration and
\* scraper state are gone and the events stored before are all there.
C27_Witness ==
    \E c \in Chains : \E f \in Frames(c) :
        /\ f.pc = "responded"
        /\ f.request = "delete"
        /\ f.status = "200"
        /\ chainConfigs[c] = NoConfig
        /\ scraperStates[c] = NoState
        /\ SetToBag(StoppedEvents) \sqsubseteq events
        /\ StoppedEvents # {}

\* C28: once the Supervisor's stop(chainId) has returned (the stop request is
\* past its call of stopChain), no tick of the chain is in flight.
C28_StopQuiesces ==
    \A c \in Chains : \A f \in Frames(c) :
        (f.request = "stop" /\ f.pc \in {"save", "saveState", "responded"})
          => TicksInFlight(c) = 0

\* C29: when add(cfg) returns, with success or with any failure, the chain
\* configuration of the chain exists exactly if its scraper state exists.
C29_ConfigIffCursor ==
    [][\A c \in Chains : \A f \in Frames(c) :
         (/\ f.request = "add"
          /\ \E status \in {"201", "400", "409", "500"} : Responds(c, f, status))
           => (chainConfigs'[c] # NoConfig <=> scraperStates'[c] # NoState)]_vars

\* C24: getLatestBlockNumber and loadFeeCollectorEvents each make at most
\* retryAttempts RPC attempts: a call waiting for an answer has failed fewer
\* than retryAttempts times, a call that was answered at attempt k has failed
\* k - 1 < retryAttempts times, a call fails only when retryAttempts attempts
\* failed; and a tick whose calls were answered within the budget commits its
\* window and leaves errorCount 0.
C24_RetryBudget ==
    /\ [](\A c \in Chains : \A f \in Frames(c) :
            LET budget == EffectiveRetryAttempts(chainConfigs[c])
            IN  /\ f.latestFailed <= budget
                /\ f.loadFailed <= budget
                /\ (f.pc = "calcLatest" \/ f.fromBlock # 0) => f.latestFailed < budget
                /\ (f.pc = "handleError" /\ f.fromBlock = 0) => f.latestFailed = budget
                /\ (f.pc \in {"load", "parse", "storeFind", "storeInsert", "updateState"}
                      \/ (f.pc = "returned" /\ f.result.success))
                     => f.loadFailed < budget
                /\ (f.pc = "returned" /\ f.result.error = "rpc")
                     => f.loadFailed = budget)
    /\ [][\A c \in Chains : \A f \in Frames(c) :
            Commits(c, f)
              => /\ scraperStates'[c].lastProcessedBlock = f.toBlock
                 /\ scraperStates'[c].errorCount = 0]_vars

\* C24 witness: a tick whose two RPC calls each failed retryAttempts - 1 times
\* and were answered at the last attempt has committed its window, and the
\* scraper state has errorCount 0.
C24_Witness ==
    \E c \in Chains : \E f \in Frames(c) :
        /\ chainConfigs[c] # NoConfig
        /\ chainConfigs[c].retryAttempts = DefaultRetryAttempts
        /\ f.pc = "returned"
        /\ f.result.success
        /\ f.latestFailed = DefaultRetryAttempts - 1
        /\ f.loadFailed = DefaultRetryAttempts - 1
        /\ scraperStates[c].lastProcessedBlock = f.toBlock
        /\ scraperStates[c].errorCount = 0

\* C23: when gracefulShutdown() completes (stop() returns with its status
\* write applied, before the timeout), no ticker is installed for any chain,
\* chains started through the control plane included, and every configured
\* chain has workerStatus 'stopped'.
C23_ShutdownQuiesces ==
    [][(service.shutdown = "stopping" /\ service'.shutdown = "stopped")
         => \A c \in Chains :
              /\ intervals'[c] = NoTimer
              /\ timers'[c] = EmptyBag
              /\ chainConfigs'[c] # NoConfig
                   => chainConfigs'[c].workerStatus = "stopped"]_vars

\* C30: on SIGINT/SIGTERM the process exits (and with it the connection to the
\* store closes) only after the Supervisor's stop has returned, every ticker
\* is cancelled and 'stopped' is persisted for every configured chain; the
\* forced exit after the shutdown timeout is left aside.
C30_ExitAfterStop ==
    [][(alive /\ ~alive' /\ service.shutdown # "idle"
              /\ service'.shutdown # "timedOut")
         => /\ service.shutdown = "stopped"
            /\ \A c \in Chains :
                 /\ timers[c] = EmptyBag
                 /\ chainConfigs[c] # NoConfig
                      => chainConfigs[c].workerStatus = "stopped"]_vars

\* C32: when a configured chain has no ScraperState document, or one whose
\* lastProcessedBlock is 0, the window the planner returns is computed from the
\* chain's configured startingBlock (taken as the first block of the window, or
\* as the cursor before it), and not from the process-wide default.
C32_FallbackToChainStart ==
    [][\A c \in Chains : \A f \in Frames(c) :
         (/\ PlannerReturns(c, f)
          /\ chainConfigs[c] # NoConfig
          /\ \/ scraperStates[c] = NoState
             \/ scraperStates[c].lastProcessedBlock = 0)
           => \/ PlannerResultIs(c, chainConfigs[c].startingBlock)
              \/ PlannerResultIs(c, chainConfigs[c].startingBlock - 1)]_vars

\* C38: a failed tick never leaves the callback of a ticker as a rejection that
\* nothing handles, whether the ticker was installed by startChain or by
\* updateChainInterval: no call of processChain made by a ticker ends with its
\* error thrown out of the callback.
C38_CallbackContainsFailure ==
    \A c \in Chains : \A f \in Frames(c) :
        f.origin \in {"start", "update"} => f.pc # "unhandled"

\* C33: in every reachable state the live tickers of a chain are the one the
\* handle map records, if any, and no other, also after two overlapping calls
\* of startChain; stated for the chains on which updateChainInterval installed
\* no ticker, so that only startChain is involved.
C33_OneTickerPerChain ==
    \A c \in Chains :
        ~BagIn("update", timers[c]) => timers[c] = MapTimers[c]

\* C34: no step creates a ScraperState document for a chain that has no chain
\* configuration: not a tick in flight or fired after deleteChain removed the
\* chain, and not a startChain for an unknown chain.
C34_NoOrphanCursor ==
    [][\A c \in Chains :
         (scraperStates[c] = NoState /\ scraperStates'[c] # NoState)
           => chainConfigs'[c] # NoConfig]_vars

\* C35: every failed tick adds exactly 1 to the chain's errorCount and a commit
\* resets it, so errorCount never exceeds the number of ticks that have run.
C35_ErrorCountPerFailedTick ==
    \A c \in Chains :
        scraperStates[c] # NoState => scraperStates[c].errorCount <= ticksFired

\* C36: whenever no request of the control plane is in progress, a chain whose
\* stored workerStatus is 'running' has a ticker in the handle map and a chain
\* whose stored workerStatus is 'stopped' has no ticker, whatever the order in
\* which a start and a stop for the same chain ran.
C36_StatusMatchesHandle ==
    \A c \in Chains :
        (/\ chainConfigs[c] # NoConfig
         /\ \A f \in Frames(c) : f.request # "none" => f.pc = "responded")
          => /\ chainConfigs[c].workerStatus = "running" => intervals[c] # NoTimer
             /\ chainConfigs[c].workerStatus = "stopped"
                  => intervals[c] = NoTimer /\ timers[c] = EmptyBag

\* C39: when updateChain answers with an error, the stored chain configuration
\* has the rpcUrl and the scanInterval it had when the request loaded it.
C39_UpdateAllOrNothing ==
    [][\A c \in Chains : \A f \in Frames(c) :
         (/\ f.request = "update"
          /\ f.loaded # NoConfig
          /\ chainConfigs'[c] # NoConfig
          /\ \E status \in {"400", "500"} : Responds(c, f, status))
           => /\ chainConfigs'[c].rpcUrl = f.loaded.rpcUrl
              /\ chainConfigs'[c].scanInterval = f.loaded.scanInterval]_vars

\* C31: a step of a tick of one chain, on its success path or on its failure
\* path, leaves every other chain's cursor and errorCount, workerStatus,
\* client-pool handle and ticker as they were; in particular a failed tick of
\* one chain does not end the ticker of another.
C31_CrossChainIndependence ==
    [][\A a \in TwoChains : \A b \in TwoChains \ {a} :
         (\E f \in Frames(a) : CopiesIn(f, ticks'[a]) < CopiesIn(f, ticks[a]))
           => /\ scraperStates'[b] = scraperStates[b]
              /\ chainConfigs'[b] = chainConfigs[b]
              /\ (b \in providers') = (b \in providers)
              /\ intervals'[b] = intervals[b]
              /\ timers'[b] = timers[b]]_vars

\* C37: with two enabled chains of which at most one fails to come up (its RPC
\* health check or its initial tick fails), ScraperService.start() ends with
\* the service marked running and with the other chain holding a client-pool
\* handle and a ticker.
C37_StartupIsolation ==
    (faults <= 1 /\ service.start \in {"done", "failed"})
      => /\ service.isRunning
         /\ \E c \in TwoChains : c \in providers /\ intervals[c] # NoTimer

====
